---- MODULE Spec2Model ----
(***************************************************************************)
(* Sovereign storage replication: the replication client                   *)
(* (sovereign_storage/storage_replication_client.py), the storage provider *)
(* (sovereign_storage/storage_provider_server.py) and the publish/subscribe*)
(* channel between them.                                                   *)
(*                                                                         *)
(* One StorageReplicationClient instance (device ClientId) is driven by    *)
(* several asyncio tasks that call sync_to_provider.  Between two awaits a *)
(* coroutine runs without interruption, so every action below is one such  *)
(* stretch of code, exception path (except/finally) included.              *)
(*                                                                         *)
(* Three specifications share the actions: ClientSpec (the client against  *)
(* any provider), Spec (client, channel and the provider's sync handler)   *)
(* and ProviderSpec (the provider fed by the clients of its sources).      *)
(* ClientLiveSpec is ClientSpec with the steps of a call taken when they   *)
(* can be, and RestartSpec is ClientSpec with the client process replaced  *)
(* by a new one on the same store.                                         *)
(*                                                                         *)
(* RegistrySpec is the device registry (sovereign_storage/                 *)
(* device_registry.py, setup_device_registry.py) under any callers, and    *)
(* ReceiverSpec the chunked transfer of a database file                    *)
(* (apn_data_sync_sender.py, apn_data_sync_receiver.py), with SenderSpec   *)
(* the sender alone, poll by poll, against any receiver, and SharedSpec a   *)
(* second sender on the same subjects.  ServiceSpec is                     *)
(* the auto-sync supervisor (sovereign_storage/auto_sync_service.py) and   *)
(* the client's auto_sync_loop around calls of sync_to_provider.           *)
(***************************************************************************)
EXTENDS Integers, Sequences, FiniteSets, TLC

\* ---------------------------------------------------------------- bounds
MaxCalls == 2        \* calls that get past the is_syncing guard
MaxVersion == 2      \* versions get_db_version can compute: 0 .. MaxVersion
MaxChanges == 1      \* writes to the store by its owner
MaxPeerSyncs == 2    \* envelopes published by other clients
MaxTampers == 1      \* envelopes altered on the channel
MaxServes == 1       \* serve requests handled by the provider
MaxIds == 2          \* rows the device registry can hold
MaxTime == 3         \* half minutes the clock advances
MaxTimeout == 1      \* timeout_minutes passed to check_stale_devices: 1 .. MaxTimeout
MaxBytes == 3        \* length of the file to transfer, in bytes
CHUNK_SIZE == 2      \* bytes in a chunk: CHUNK_SIZE, scaled to the files of the model
MaxTransfers == 2    \* runs of the chunked-transfer sender
MaxWrites == 1       \* writes to the file by its owner while it is transferred

\* ------------------------------------------------------ program constants
AckPolls == 30       \* for i in range(30): ... await asyncio.sleep(1)
AckWaitPolls == 10   \* sender: for i in range(10): ... await asyncio.sleep(1)
ImportWaitPolls == 60    \* sender: for i in range(60): ... await asyncio.sleep(1)

\* The coroutines that call sync_to_provider on the one client: its own
\* auto_sync_loop and a direct caller (AutoSyncService.sync_once, the CLI).
Tasks == {"auto_sync_loop", "sync_once"}
Versions == 0 .. MaxVersion
ClientId == "mobile"
PeerId == "peer"
ProviderId == "provider"
Devices == {ClientId, PeerId}
Rows == {"rowsA", "rowsB"}      \* contents of the store's entity tables

NoRecord == [none |-> TRUE]
NoCall == [req |-> 0]
NoResponse == [none |-> TRUE]
NoServe == [n |-> 0]

\* The device registry: row ids (uuid4 strings or the ids the setup script
\* names), the devices registered, SQL NULL, an absent row.
Ids == 1 .. MaxIds
RegDevices == {"laptop", "cloud"}
NULL == <<>>
NoRow == [none |-> TRUE]
NoHeartbeat == [none |-> TRUE]
NoSweep == [none |-> TRUE]
Timeouts == 1 .. MaxTimeout
\* The clock starts late enough for every cutoff to be a time of the model.
ClockStart == 2 * MaxTimeout

\* The chunked transfer: the values of a byte, the files of up to MaxBytes
\* bytes, a receiver that has no metadata yet.
Bytes == {"x", "y"}
\* The node ids of the two senders.
LocalNode == "local"
PeerNode == "peer"
Files == UNION {[1 .. n -> Bytes] : n \in 0 .. MaxBytes}
None == [none |-> TRUE]
NoChunks == <<>>
Idle == [pc |-> "idle", total_size |-> 0, total_chunks |-> 0,
         checksum |-> <<>>, chunk_num |-> 0, offset |-> 0, sub |-> FALSE,
         ack_received |-> FALSE, import_complete |-> FALSE, i |-> 0,
         result |-> "none"]
NoStatus == [type |-> "none", status |-> "none"]
\* load_config's default_config, and the service and the loop before they start
DefaultConfig ==
    [enabled |-> "false", database_path |-> "set", device_id |-> "",
     provider_device_id |-> "", encryption_password |-> "", db_exists |-> FALSE]
NoService ==
    [pc |-> "init", config |-> DefaultConfig, running |-> FALSE, client |-> FALSE,
     nc |-> "none", stopped |-> FALSE, report |-> "none", last |-> "none",
     result |-> "none", log |-> "none"]
NoLoop == [pc |-> "idle", last |-> "none"]
NoRun == [sent |-> <<>>, stable |-> TRUE]
NoComplete == [n |-> 0, outcome |-> "none", imports |-> 0, returncode |-> 0]

\* ------------------------------------------------------ pure functions
\* hashlib.sha256(x).hexdigest(): collision-free on the model's values.
sha256(x) == <<"sha256", x>>

\* The bytes of the store file: the entity tables and the
\* data_replication_state table live in the same sqlite file.
FileBytes(rows, repl) == [rows |-> rows, repl |-> repl]

\* st_size of the store file / len() of a ciphertext, in abstract units: the
\* size follows the rows held and the replication-state record.
FileSize(bytes) ==
    (IF bytes.rows = "rowsB" THEN 2 ELSE 1) + (IF bytes.repl = NoRecord THEN 0 ELSE 1)

\* Fernet.encrypt: the token wraps the plaintext; intact is FALSE once the
\* token's bytes were altered after encryption.
Encrypt(bytes) == [plain |-> bytes, intact |-> TRUE]

CipherLen(token) == FileSize(token.plain) + 1

\* base64.b64encode(...).decode() and base64.b64decode(...)
b64encode(token) == <<"b64", token>>

b64decode(text) == text[2]

\* ---------------------------------------------------------------- state
VARIABLES
    \* the store of the client's device
    db_version,          \* what get_db_version() would return now
    db_rows,             \* contents of projects / tasks / users
    repl_state,          \* the data_replication_state record
    \* StorageReplicationClient
    is_syncing,
    last_sync_version,
    nc,                  \* "none" | "up" | "down"
    pc,                  \* per task: where its sync_to_provider call stands
    loc,                 \* per task: the locals of its call
    subs,                \* tasks whose ack subscription is registered
    \* the channel
    syncNet,             \* envelopes published on apn.storage.sync.<provider>
    ackNet,              \* acknowledgments published, not yet routed
    \* StorageProviderServer
    replicas,            \* self.replicas
    files,               \* <storage_dir>/<device>.db.encrypted
    storage_used,        \* storage_contracts.actual_storage_used_gb
    transferred,         \* storage_contracts.total_data_transferred_gb
    last_response,       \* the last message published on apn.storage.response.*
    \* history
    calls,               \* calls that passed the guard so far
    changes,             \* writes to the store so far
    peer_syncs,
    tampers,
    serves,
    version_changes,     \* writes that moved the computed version
    last_call,           \* the call that returned last
    refused,             \* a call was refused while the current one is in flight
    failed,              \* requests in whose handling handle_sync_request raised
    last_stored,         \* per source: record of the last request whose write returned
    last_ok,             \* per source: record of the last request handled to the end
    stored,              \* the (source, version) pairs of the requests whose write returned
    served,              \* the last serve request handled: for whom, how it ended
    \* DeviceRegistry: the device_registry table and the calls in progress
    registry,            \* id -> row, NoRow for an id not in the table
    now,                 \* the clock, in half minutes
    hb,                  \* update_heartbeat in progress: timestamps taken, UPDATE not run
    sweep,               \* check_stale_devices in progress: cutoff taken, UPDATE not run
    affected,            \* what the last check_stale_devices returned
    swept_at,            \* per id: cutoff of the sweep that last set it offline, 0 if none
    src_file,            \* sender: the database file, a sequence of bytes
    tx,                  \* sender: position in sync() and its metadata
    transfers,           \* sender: runs of sync() started
    writes,              \* writes to the file by its owner
    run,                 \* sender: the chunks this run of sync() has published, and
                         \* whether the file is as it was when the run began
    rxNet,               \* messages published on the three sync subjects, not yet delivered
    last_status,         \* receiver: the status it published last
    rx_metadata,         \* receiver: self.metadata
    rx_chunks,           \* receiver: self.chunks, chunk_num -> chunk
    rx_keys,             \* receiver: the keys of self.chunks in insertion order
    rx_imported,         \* receiver: the file last handed to import_data
    rx_last,             \* receiver: number of handle_complete calls, outcome of
                         \* the last one ("imported": the file was handed to
                         \* import_data), exit code of the last import, number
                         \* of imports that succeeded since the last request
    chunk_calls,         \* receiver: parity of the number of handle_chunk calls
    peer,                \* a second sender, on another node: position in its sync()
    service,             \* AutoSyncService: config, running, client, position in run()
    auto                 \* StorageReplicationClient.auto_sync_loop: position, last outcome

vars == <<db_version, db_rows, repl_state, is_syncing, last_sync_version, nc,
          pc, loc, subs, syncNet, ackNet, replicas, files, storage_used,
          transferred, last_response, calls, changes, peer_syncs, tampers,
          serves, version_changes, last_call, refused, failed, last_stored,
          last_ok, stored, served, registry, now, hb, sweep, affected, swept_at,
          src_file, tx, transfers, writes, run, rxNet, last_status, rx_metadata,
          rx_chunks, rx_keys, rx_imported, rx_last, chunk_calls, peer, service,
          auto>>

clientVars == <<is_syncing, last_sync_version, nc, pc, loc, subs, repl_state,
                calls, last_call, refused>>
storeVars == <<db_version, db_rows, changes, version_changes>>
providerVars == <<replicas, files, storage_used, transferred, last_response,
                  serves, failed, last_stored, last_ok, stored, served>>
registryVars == <<registry, now, hb, sweep, affected, swept_at>>
senderVars == <<src_file, tx, transfers, writes, run>>
receiverVars == <<rx_metadata, rx_chunks, rx_keys, rx_imported, rx_last,
                  chunk_calls>>
transferVars == <<senderVars, receiverVars, rxNet, last_status, peer>>
serviceVars == <<service, auto>>
\* what the replication path never touches
sideVars == <<registryVars, transferVars, serviceVars>>
\* what the registry never touches
syncVars == <<clientVars, storeVars, providerVars, syncNet, ackNet, peer_syncs,
              tampers, serviceVars>>
\* what the auto-sync service never touches
restVars == <<clientVars, storeVars, providerVars, syncNet, ackNet, peer_syncs,
              tampers, registryVars, transferVars>>

InFlight == {"connect", "get_version", "get_checksum", "export", "publish",
             "subscribe", "wait", "commit"}

NoLocals == [req |-> 0, start |-> 0, version |-> -1, checksum |-> <<>>,
             size |-> 0, data |-> <<>>, published |-> 0,
             ack_received |-> FALSE, i |-> 0, window_ack |-> FALSE,
             acked |-> -1]

Init ==
    /\ db_version \in Versions
    /\ db_rows = "rowsA"
    /\ repl_state = NoRecord
    /\ is_syncing = FALSE
    /\ last_sync_version = 0
    /\ nc = "none"
    /\ pc = [t \in Tasks |-> "idle"]
    /\ loc = [t \in Tasks |-> NoLocals]
    /\ subs = {}
    /\ syncNet = {}
    /\ ackNet = {}
    /\ replicas = [d \in Devices |-> NoRecord]
    /\ files = [d \in Devices |-> NoRecord]
    /\ storage_used = 0
    /\ transferred = 0
    /\ last_response = NoResponse
    /\ calls = 0
    /\ changes = 0
    /\ peer_syncs = 0
    /\ tampers = 0
    /\ serves = 0
    /\ version_changes = 0
    /\ last_call = NoCall
    /\ refused = FALSE
    /\ failed = {}
    /\ last_stored = [d \in Devices |-> NoRecord]
    /\ stored = {}
    /\ last_ok = [d \in Devices |-> NoRecord]
    /\ served = NoServe
    /\ registry = [id \in Ids |-> NoRow]
    /\ now = ClockStart
    /\ hb = NoHeartbeat
    /\ sweep = NoSweep
    /\ affected = 0
    /\ swept_at = [id \in Ids |-> 0]
    /\ src_file = <<"x", "y">>
    /\ tx = Idle
    /\ transfers = 0
    /\ writes = 0
    /\ run = NoRun
    /\ rxNet = {}
    /\ last_status = NoStatus
    /\ rx_metadata = None
    /\ peer = Idle
    /\ rx_chunks = NoChunks
    /\ rx_keys = <<>>
    /\ rx_imported = None
    /\ rx_last = NoComplete
    /\ chunk_calls = 0
    /\ service = NoService
    /\ auto = NoLoop

\* ------------------------------------------------------ the store's owner
\* Another process (the dashboard) writes to the store: the rows change and
\* MAX(updated_at) moves, or the rows change and it stays.
DbWrite ==
    /\ changes < MaxChanges
    /\ \E v \in Versions : db_version' = v
    /\ db_rows' = CHOOSE r \in Rows : r # db_rows
    /\ changes' = changes + 1
    /\ version_changes' = IF db_version' # db_version
                          THEN version_changes + 1 ELSE version_changes
    /\ UNCHANGED <<clientVars, providerVars, sideVars, syncNet, ackNet,
                   peer_syncs, tampers>>

\* ------------------------------------------------ StorageReplicationClient
\* The end of a call that passed the guard: the except clause swallows the
\* exception, the finally clause clears the flag, the call returns.
Returned(t, outcome) ==
    [req |-> loc[t].req, start |-> loc[t].start,
     published |-> loc[t].published, outcome |-> outcome]

\* A finally clause that leaves the flag as the call set it.
FinallyKeepsFlag == TRUE

\* finally: self.is_syncing = False
FinallyClear == FALSE

Finally(t, outcome) ==
    /\ is_syncing' = FinallyClear
    /\ pc' = [pc EXCEPT ![t] = "idle"]
    /\ loc' = [loc EXCEPT ![t] = NoLocals]
    /\ last_call' = Returned(t, outcome)
    /\ refused' = FALSE

\* A guard that lets every call through.
GuardIgnoresFlag == FALSE

\* if self.is_syncing: return / self.is_syncing = True
GuardRefuses == is_syncing

Guard(t) ==
    /\ pc[t] \notin InFlight
    /\ IF GuardRefuses
       THEN /\ refused' = TRUE            \* the call returns at once
            /\ UNCHANGED <<is_syncing, pc, loc, calls>>
       ELSE /\ calls < MaxCalls
            /\ UNCHANGED refused
            /\ is_syncing' = TRUE
            /\ calls' = calls + 1
            /\ pc' = [pc EXCEPT ![t] = "connect"]
            /\ loc' = [loc EXCEPT ![t] = [NoLocals EXCEPT !.req = calls + 1,
                                                          !.start = version_changes]]
    /\ UNCHANGED <<last_sync_version, nc, subs, repl_state, last_call,
                   storeVars, sideVars, providerVars, syncNet, ackNet, peer_syncs,
                   tampers>>

\* await self.connect()
Connect(t) ==
    /\ pc[t] = "connect"
    /\ \/ /\ nc = "none"
          /\ nc' = "up"
          /\ pc' = [pc EXCEPT ![t] = "get_version"]
          /\ UNCHANGED <<is_syncing, loc, last_call, refused>>
       \/ /\ nc = "none"             \* nc.connect raises; self.nc stays set
          /\ nc' = "down"
          /\ Finally(t, "raised")
       \/ /\ nc # "none"             \* if not self.nc: skipped
          /\ nc' = nc
          /\ pc' = [pc EXCEPT ![t] = "get_version"]
          /\ UNCHANGED <<is_syncing, loc, last_call, refused>>
    /\ UNCHANGED <<last_sync_version, subs, repl_state, calls, storeVars, sideVars, providerVars, syncNet, ackNet, peer_syncs,
                   tampers>>

\* current_version = self.get_db_version()
GetVersion(t) ==
    /\ pc[t] = "get_version"
    /\ \/ /\ loc' = [loc EXCEPT ![t].version = db_version]
          /\ pc' = [pc EXCEPT ![t] = "get_checksum"]
          /\ UNCHANGED <<is_syncing, last_call, refused>>
       \/ Finally(t, "raised")   \* sqlite3 raises
    /\ UNCHANGED <<last_sync_version, nc, subs, repl_state, calls, storeVars, sideVars, providerVars, syncNet, ackNet, peer_syncs,
                   tampers>>

\* A no-op test that never short-circuits.
NoChangeNever(t) == FALSE

\* if current_version == self.last_sync_version: return
NoChange(t) == loc[t].version = last_sync_version

\* current_checksum, db_size, then the no-op test
GetChecksum(t) ==
    /\ pc[t] = "get_checksum"
    /\ \/ /\ NoChange(t)
          /\ Finally(t, "no_change")
       \/ /\ ~NoChange(t)
          /\ loc' = [loc EXCEPT
                ![t].checksum = sha256(FileBytes(db_rows, repl_state)),
                ![t].size = FileSize(FileBytes(db_rows, repl_state))]
          /\ pc' = [pc EXCEPT ![t] = "export"]
          /\ UNCHANGED <<is_syncing, last_call, refused>>
       \/ Finally(t, "raised")   \* open() or stat() raises
    /\ UNCHANGED <<last_sync_version, nc, subs, repl_state, calls, storeVars, sideVars, providerVars, syncNet, ackNet, peer_syncs,
                   tampers>>

\* encrypted_data = self.export_database_chunk()
Export(t) ==
    /\ pc[t] = "export"
    /\ \/ /\ loc' = [loc EXCEPT
                ![t].data = Encrypt(FileBytes(db_rows, repl_state))]
          /\ pc' = [pc EXCEPT ![t] = "publish"]
          /\ UNCHANGED <<is_syncing, last_call, refused>>
       \/ Finally(t, "raised") \* open() or Fernet.encrypt raises
    /\ UNCHANGED <<last_sync_version, nc, subs, repl_state, calls, storeVars, sideVars, providerVars, syncNet, ackNet, peer_syncs,
                   tampers>>

\* sync_msg
Envelope(from, req, version, checksum, size, token) ==
    [type |-> "STORAGE_SYNC", from |-> from, to |-> ProviderId,
     version |-> version, checksum |-> checksum, size |-> size,
     encrypted_size |-> CipherLen(token), data |-> b64encode(token),
     sent |-> token, req |-> req]

\* await self.nc.publish(f"apn.storage.sync.{provider}", ...)
Publish(t) ==
    /\ pc[t] = "publish"
    /\ \/ /\ nc = "up"
          /\ syncNet' = syncNet \cup
                {Envelope(ClientId, loc[t].req, loc[t].version,
                          loc[t].checksum, loc[t].size, loc[t].data)}
          /\ loc' = [loc EXCEPT ![t].published = @ + 1]
          /\ pc' = [pc EXCEPT ![t] = "subscribe"]
          /\ UNCHANGED <<is_syncing, last_call, refused>>
       \/ /\ Finally(t, "raised")   \* nc.publish raises
          /\ UNCHANGED syncNet
    /\ UNCHANGED <<last_sync_version, nc, subs, repl_state, calls, storeVars, sideVars, providerVars, ackNet, peer_syncs, tampers>>

\* sub = await self.nc.subscribe(f"apn.storage.ack.{device_id}", cb=ack_handler)
Subscribe(t) ==
    /\ pc[t] = "subscribe"
    /\ \/ /\ subs' = subs \cup {t}
          /\ pc' = [pc EXCEPT ![t] = "wait"]
          /\ UNCHANGED <<is_syncing, loc, last_call, refused>>
       \/ /\ Finally(t, "raised")
          /\ UNCHANGED subs
    /\ UNCHANGED <<last_sync_version, nc, repl_state, calls, storeVars, sideVars, providerVars, syncNet, ackNet, peer_syncs,
                   tampers>>

\* A wait loop that runs one round too many.
PollLimitPlusOne == AckPolls + 1

\* for i in range(30): if ack_received: break; await asyncio.sleep(1)
PollLimit == AckPolls

Poll(t) ==
    /\ pc[t] = "wait"
    /\ ~loc[t].ack_received
    /\ loc[t].i < PollLimit
    /\ loc' = [loc EXCEPT ![t].i = @ + 1]
    /\ UNCHANGED <<last_sync_version, nc, pc, subs, repl_state, is_syncing,
                   calls, last_call, refused, storeVars, sideVars,
                   providerVars, syncNet, ackNet, peer_syncs, tampers>>

\* await self.nc.unsubscribe(sub)
Unsubscribe(t) ==
    /\ pc[t] = "wait"
    /\ loc[t].ack_received \/ loc[t].i = PollLimit
    /\ subs' = subs \ {t}
    /\ pc' = [pc EXCEPT ![t] = "commit"]
    /\ UNCHANGED <<last_sync_version, nc, loc, repl_state, is_syncing,
                   calls, last_call, refused, storeVars, sideVars,
                   providerVars, syncNet, ackNet, peer_syncs, tampers>>

\* A commit that does not look at ack_received.
ConfirmedAlways(t) == TRUE

\* if ack_received: ... else: "Sync failed (no acknowledgment)"
Confirmed(t) == loc[t].ack_received

\* self.last_sync_version = current_version; self._update_replication_state(...)
Commit(t) ==
    /\ pc[t] = "commit"
    /\ IF Confirmed(t)
       THEN /\ last_sync_version' = loc[t].version
            /\ repl_state' = [version |-> loc[t].version,
                              checksum |-> loc[t].checksum]
            /\ Finally(t, "ok")
       ELSE /\ UNCHANGED <<last_sync_version, repl_state>>
            /\ Finally(t, "timeout")
    /\ UNCHANGED <<nc, subs, calls, storeVars, sideVars,
                   providerVars, syncNet, ackNet, peer_syncs, tampers>>

\* ------------------------------------------------------------ the channel
\* ack_handler: if data.get("success"): ack_received = True
AckHandler(t, ack) == ack.success

\* The broker routes an acknowledgment to the subscriptions registered on its
\* subject at that moment; with none registered it is dropped.
RouteAck ==
    \E a \in ackNet :
        /\ ackNet' = ackNet \ {a}
        /\ loc' = [t \in Tasks |->
              IF pc[t] \in {"subscribe", "wait"} /\ a.to = ClientId
              THEN [loc[t] EXCEPT
                     !.ack_received =
                         @ \/ (t \in subs /\ AckHandler(t, a)),
                     !.window_ack = @ \/ (a.success /\ a.req = loc[t].req),
                     !.acked = IF t \in subs /\ AckHandler(t, a)
                                  /\ ~loc[t].ack_received
                               THEN a.version ELSE @]
              ELSE loc[t]]
        /\ UNCHANGED <<last_sync_version, nc, pc, subs, repl_state,
                       is_syncing, calls, last_call, refused,
                       storeVars, sideVars, providerVars, syncNet, peer_syncs,
                       tampers>>

\* ------------------------------------------------------ source devices
\* What a source device's store holds at version v.
RowsAt(v) == IF v % 2 = 0 THEN "rowsA" ELSE "rowsB"

\* The client of some source device publishes on the provider's sync subject
\* (only its publish is followed): a full envelope of what its store holds,
\* or a peer still on v0.2.0 publishes its metadata-only message.
SourceSync ==
    /\ peer_syncs < MaxPeerSyncs
    /\ peer_syncs' = peer_syncs + 1
    /\ \/ \E d \in Devices, v \in Versions :
             syncNet' = syncNet \cup
                 {Envelope(d, MaxCalls + peer_syncs + 1, v,
                           sha256(FileBytes(RowsAt(v), NoRecord)),
                           FileSize(FileBytes(RowsAt(v), NoRecord)),
                           Encrypt(FileBytes(RowsAt(v), NoRecord)))}
       \/ \E d \in {PeerId} :
             syncNet' = syncNet \cup
                 {[Envelope(d, MaxCalls + peer_syncs + 1, 0,
                            sha256(FileBytes("rowsA", NoRecord)),
                            FileSize(FileBytes("rowsA", NoRecord)),
                            Encrypt(FileBytes("rowsA", NoRecord)))
                      EXCEPT !.type = "METADATA"]}
    /\ UNCHANGED <<clientVars, storeVars, sideVars, providerVars, ackNet, tampers>>

\* An envelope is altered between the client's publish and the provider's
\* receipt: ciphertext bytes change, or the payload no longer decodes.
Altered(m, how) ==
    CASE how = "ciphertext" ->
            [m EXCEPT !.data = b64encode([b64decode(m.data) EXCEPT !.intact = FALSE])]
      [] how = "bad_base64" -> [m EXCEPT !.data = <<"not-base64">>]
      [] OTHER -> [m EXCEPT !.type = "NOT_JSON"]

Tamper ==
    /\ tampers < MaxTampers
    /\ tampers' = tampers + 1
    /\ \E m \in syncNet, how \in {"ciphertext", "bad_base64", "bad_json"} :
          /\ m.type = "STORAGE_SYNC"
          /\ m.data = b64encode(m.sent)
          /\ syncNet' = (syncNet \ {m}) \cup {Altered(m, how)}
    /\ UNCHANGED <<clientVars, storeVars, sideVars, providerVars, ackNet, peer_syncs>>

\* --------------------------------------------------- StorageProviderServer
\* json.loads(msg.data.decode()) and base64.b64decode(data.get("data", ""))
Decodes(m) == m.type # "NOT_JSON" /\ m.data[1] = "b64"

\* The v0.2.0 metadata-only message: "from_device" in data and "projects" in data
MetadataOnly(m) == m.type = "METADATA"

\* What open(replica_path, 'wb') followed by a failed write leaves behind.
TruncatedFile == [truncated |-> TRUE]

\* A write that leaves an existing replica file as it is.
WriteFileKeepsOld(old, token, how) == IF old = NoRecord THEN token ELSE old

\* with open(replica_path, 'wb') as f: f.write(encrypted_data)
\*   "written":   the write returned
\*   "open_error": open() raised, the file is as it was
\*   "write_error": open() truncated the file and write() raised
WriteFile(old, token, how) ==
    CASE how = "written" -> token
      [] how = "open_error" -> old
      [] OTHER -> TruncatedFile

\* self.replicas[client_device_id] = {...}
ReplicaRecord(m, token) ==
    [path |-> m.from, version |-> m.version, checksum |-> m.checksum,
     encrypted_checksum |-> sha256(token), size |-> m.size,
     encrypted_size |-> m.encrypted_size, req |-> m.req]

\* UPDATE storage_contracts SET actual_storage_used_gb = ?
RecordStorage(used, encrypted_size) == encrypted_size

\* An acknowledgment that repeats the checksum field of the envelope.
AckEnvelopeChecksum(m, token) ==
    [to |-> m.from, success |-> TRUE, version |-> m.version,
     checksum |-> m.checksum, req |-> m.req]

\* ack
Ack(m, token) ==
    [to |-> m.from, success |-> TRUE, version |-> m.version,
     checksum |-> sha256(token), req |-> m.req]

\* except Exception as e: logger.error(...); the handler returns
Raised(m) == failed' = failed \cup {m.req}

\* An index that keeps the record with the higher version.
IndexKeepsHigherVersion(old, new) ==
    IF old # NoRecord /\ old.version > new.version THEN old ELSE new

\* self.replicas[client_device_id] = {...}: a plain assignment
IndexUpdate(old, new) == new

\* async def handle_sync_request(self, msg): the whole handler, with the step
\* at which it raises, if it does.
handle_sync_request ==
    \E m \in syncNet :
        /\ syncNet' = syncNet \ {m}
        /\ \/ /\ ~Decodes(m)                       \* json / base64 raises
              /\ Raised(m)
              /\ UNCHANGED <<replicas, files, storage_used, ackNet,
                             last_stored, last_ok, stored>>
           \/ /\ Decodes(m)
              /\ MetadataOnly(m)                   \* return
              /\ UNCHANGED <<replicas, files, storage_used, ackNet,
                             last_stored, last_ok, stored, failed>>
           \/ /\ Decodes(m)
              /\ ~MetadataOnly(m)
              /\ \E how \in {"open_error", "write_error"} :
                    files' = [files EXCEPT
                        ![m.from] = WriteFile(@, b64decode(m.data), how)]
              /\ Raised(m)
              /\ UNCHANGED <<replicas, storage_used, ackNet, last_stored, stored,
                             last_ok>>
           \/ /\ Decodes(m)
              /\ ~MetadataOnly(m)
              /\ files' = [files EXCEPT
                    ![m.from] = WriteFile(@, b64decode(m.data), "written")]
              /\ replicas' = [replicas EXCEPT
                    ![m.from] = IndexUpdate(@, ReplicaRecord(m, b64decode(m.data)))]
              /\ last_stored' = [last_stored EXCEPT
                    ![m.from] = ReplicaRecord(m, b64decode(m.data))]
              /\ stored' = stored \cup {<<m.from, m.version>>}
              /\ \/ /\ Raised(m)                   \* sqlite3 raises
                    /\ UNCHANGED <<storage_used, ackNet, last_ok>>
                 \/ /\ storage_used' = RecordStorage(storage_used, m.encrypted_size)
                    /\ Raised(m)                   \* nc.publish raises
                    /\ UNCHANGED <<ackNet, last_ok>>
                 \/ /\ storage_used' = RecordStorage(storage_used, m.encrypted_size)
                    /\ ackNet' = ackNet \cup {Ack(m, b64decode(m.data))}
                    /\ UNCHANGED failed
                    /\ last_ok' = [last_ok EXCEPT
                          ![m.from] = ReplicaRecord(m, b64decode(m.data))]
        /\ UNCHANGED <<clientVars, storeVars, sideVars, transferred, last_response,
                       serves, served, peer_syncs, tampers>>

\* UPDATE storage_contracts SET total_data_transferred_gb = total_data_transferred_gb + ?
RecordTransfer(total, bytes_transferred) == total + bytes_transferred

\* response
ServeResponse(d, record, content) ==
    [success |-> TRUE, device_id |-> d, version |-> record.version,
     data |-> b64encode(content), checksum |-> record.encrypted_checksum,
     source |-> "storage_provider", provider_id |-> ProviderId]

\* A miss response that names no error.
MissWithoutError == [success |-> FALSE]

\* {"error": "No replica available"}
MissResponse == [error |-> "No replica available"]

\* if client_device_id not in self.replicas
ServeMiss(d) == replicas[d] = NoRecord

\* async def serve_data_request(self, msg): the whole handler, with the step
\* at which it raises, if it does.
serve_data_request ==
    /\ serves < MaxServes
    /\ serves' = serves + 1
    /\ \E d \in Devices :
          IF ServeMiss(d)
          THEN /\ \/ /\ last_response' = MissResponse
                     /\ served' = [n |-> serves + 1, device |-> d, outcome |-> "miss"]
                  \/ /\ UNCHANGED last_response          \* nc.publish raises
                     /\ served' = [n |-> serves + 1, device |-> d, outcome |-> "raised"]
               /\ UNCHANGED transferred
          ELSE \/ /\ last_response' = ServeResponse(d, replicas[d], files[d])
                  /\ \/ /\ transferred' =
                              RecordTransfer(transferred, replicas[d].encrypted_size)
                        /\ served' = [n |-> serves + 1, device |-> d, outcome |-> "sent"]
                     \/ /\ UNCHANGED transferred           \* sqlite3 raises
                        /\ served' = [n |-> serves + 1, device |-> d,
                                      outcome |-> "sent_unrecorded"]
               \/ /\ UNCHANGED <<last_response, transferred>> \* open / publish raises
                  /\ served' = [n |-> serves + 1, device |-> d, outcome |-> "raised"]
    /\ UNCHANGED <<clientVars, storeVars, sideVars, replicas, files, storage_used,
                   failed, last_stored, last_ok, stored, syncNet, ackNet, peer_syncs,
                   tampers>>

\* ---------------------------------------------------------- DeviceRegistry
\* datetime.isoformat() of clock reading t: fields of fixed width, and the
\* fraction of the minute only when it is not zero; a digit is its value and
\* '.' is -1, which sorts before every digit as '.' does in a string.
IsoFormat(t) ==
    <<(t \div 2) \div 10, (t \div 2) % 10>> \o (IF t % 2 = 0 THEN <<>> ELSE <<-1, 5>>)

\* a < b on two strings, as sqlite compares TEXT
RECURSIVE StrLess(_, _)
StrLess(a, b) ==
    IF b = <<>> THEN FALSE
    ELSE IF a = <<>> THEN TRUE
    ELSE IF Head(a) # Head(b) THEN Head(a) < Head(b)
    ELSE StrLess(Tail(a), Tail(b))

\* The clock moves on.
Tick ==
    /\ now < ClockStart + MaxTime
    /\ now' = now + 1
    /\ UNCHANGED <<registry, hb, sweep, affected, swept_at, syncVars, transferVars>>

\* device_id = str(uuid.uuid4()): an id no row has
FreshId ==
    CHOOSE id \in Ids :
        registry[id] = NoRow /\ \A j \in Ids : registry[j] = NoRow => id <= j

\* the device the caller of DeviceRegistry.register_device describes; it
\* passes no device id
Described(d) == [apn_node_id |-> d, device_id |-> 0]

\* DeviceRegistry.register_device: INSERT INTO device_registry (...) under a
\* fresh id, with the flags as they were passed.
register_device ==
    /\ \E id \in Ids : registry[id] = NoRow
    /\ \E d \in RegDevices, serves_data \in BOOLEAN, accepts_contracts \in BOOLEAN :
          registry' = [registry EXCEPT ![FreshId] =
              [device |-> Described(d), serves_data |-> serves_data,
               accepts_storage_contracts |-> accepts_contracts, is_online |-> TRUE,
               last_seen |-> IsoFormat(now), last_heartbeat |-> NULL]]
    /\ UNCHANGED <<now, hb, sweep, affected, swept_at, syncVars, transferVars>>

\* setup_devices: every device it registers has a device_id of its own, which
\* no uuid4 of DeviceRegistry.register_device equals
SetupDevice(id) == [apn_node_id |-> "setup", device_id |-> id]

\* setup_device_registry.register_device: SELECT by id, then UPDATE the row
\* found or INSERT one; accepts_storage_contracts, is_online, last_seen and
\* last_heartbeat are not in the UPDATE, and the INSERT sets only is_online
\* of them.
setup_register_device ==
    /\ \E id \in Ids, serves_data \in BOOLEAN :
          /\ registry[id] # NoRow => registry[id].device = SetupDevice(id)
          /\ registry' = [registry EXCEPT ![id] =
              IF registry[id] # NoRow
              THEN [registry[id] EXCEPT !.serves_data = serves_data]
              ELSE [device |-> SetupDevice(id), serves_data |-> serves_data,
                    accepts_storage_contracts |-> FALSE, is_online |-> TRUE,
                    last_seen |-> NULL, last_heartbeat |-> NULL]]
    /\ UNCHANGED <<now, hb, sweep, affected, swept_at, syncVars, transferVars>>

\* update_heartbeat(device_id): datetime.utcnow().isoformat() is taken ...
HeartbeatStamp ==
    /\ hb = NoHeartbeat
    /\ \E id \in Ids : hb' = [id |-> id, stamp |-> IsoFormat(now), at |-> now]
    /\ UNCHANGED <<registry, now, sweep, affected, swept_at, syncVars, transferVars>>

\* A heartbeat that updates every row.
HeartbeatTargetsAll(row_id, device_id) == TRUE

\* WHERE id = ?
HeartbeatTargets(row_id, device_id) == row_id = device_id

\* ... and the UPDATE runs: SET is_online = TRUE, last_heartbeat = ?, last_seen = ?
update_heartbeat ==
    /\ hb # NoHeartbeat
    /\ registry' = [id \in Ids |->
          IF registry[id] # NoRow /\ HeartbeatTargets(id, hb.id)
          THEN [registry[id] EXCEPT !.is_online = TRUE,
                                    !.last_heartbeat = hb.stamp,
                                    !.last_seen = hb.stamp]
          ELSE registry[id]]
    /\ hb' = NoHeartbeat
    /\ UNCHANGED <<now, sweep, affected, swept_at, syncVars, transferVars>>

\* A cutoff that is the time of the call.
CutoffNow(t, timeout_minutes) == t

\* cutoff = datetime.utcnow() - timedelta(minutes=timeout_minutes)
Cutoff(t, timeout_minutes) == t - 2 * timeout_minutes

\* check_stale_devices(timeout_minutes): the cutoff is taken ...
SweepCutoff ==
    /\ sweep = NoSweep
    /\ \E timeout_minutes \in Timeouts :
          sweep' = [cutoff |-> IsoFormat(Cutoff(now, timeout_minutes)),
                    at |-> now, timeout_minutes |-> timeout_minutes]
    /\ UNCHANGED <<registry, now, hb, affected, swept_at, syncVars, transferVars>>

\* A sweep that takes every online row.
StaleAnyOnline(row, cutoff) == row.is_online

\* WHERE last_heartbeat < ? AND is_online = TRUE (NULL < ? is not true)
Stale(row, cutoff) ==
    /\ row.is_online
    /\ row.last_heartbeat # NULL
    /\ StrLess(row.last_heartbeat, cutoff)

\* ... and the UPDATE runs: SET is_online = FALSE; return cursor.rowcount
check_stale_devices ==
    /\ sweep # NoSweep
    /\ registry' = [id \in Ids |->
          IF registry[id] # NoRow /\ Stale(registry[id], sweep.cutoff)
          THEN [registry[id] EXCEPT !.is_online = FALSE]
          ELSE registry[id]]
    /\ affected' = Cardinality({id \in Ids :
          registry[id] # NoRow /\ Stale(registry[id], sweep.cutoff)})
    /\ swept_at' = [id \in Ids |->
          IF registry[id] # NoRow /\ Stale(registry[id], sweep.cutoff)
          THEN sweep.at - 2 * sweep.timeout_minutes ELSE swept_at[id]]
    /\ sweep' = NoSweep
    /\ UNCHANGED <<now, hb, syncVars, transferVars>>

\* The registry: registrations, heartbeats and sweeps of any callers.
RegistryNext ==
    \/ Tick
    \/ register_device
    \/ setup_register_device
    \/ HeartbeatStamp
    \/ update_heartbeat
    \/ SweepCutoff
    \/ check_stale_devices

RegistrySpec == Init /\ [][RegistryNext]_vars

\* ---------------------------------------------------------- chunked transfer
\* What a write by the owner makes of the file: a byte appended, the first
\* byte changed, the file emptied.
Written(file) ==
    {f \in Files : \/ \E b \in Bytes : f = Append(file, b)
                   \/ file # <<>> /\ f = [file EXCEPT ![1] = IF @ = "x" THEN "y" ELSE "x"]
                   \/ file # <<>> /\ f = <<>>}

\* The owner of the database writes to it.
SourceWrite ==
    /\ writes < MaxWrites
    /\ \E f \in Written(src_file) : src_file' = f
    /\ writes' = writes + 1
    /\ run' = [run EXCEPT !.stable = FALSE]
    /\ UNCHANGED <<tx, transfers, receiverVars, rxNet, last_status, syncVars,
                   registryVars, peer>>

\* calculate_metadata: file_size = self.db_path.stat().st_size
stat_file ==
    /\ tx.pc = "idle"
    /\ transfers < MaxTransfers
    /\ transfers' = transfers + 1
    /\ tx' = [Idle EXCEPT !.pc = "checksum", !.total_size = Len(src_file)]
    /\ run' = NoRun
    /\ UNCHANGED <<src_file, writes, receiverVars, rxNet, last_status, syncVars,
                   registryVars, peer>>

\* A chunk count that rounds down.
TotalChunksFloor(file_size) == file_size \div CHUNK_SIZE

\* total_chunks = (file_size + CHUNK_SIZE - 1) // CHUNK_SIZE
TotalChunks(file_size) == (file_size + CHUNK_SIZE - 1) \div CHUNK_SIZE

\* calculate_metadata: the file is read for its checksum, and total_chunks
\* is computed from the size taken before
calculate_metadata ==
    /\ tx.pc = "checksum"
    /\ tx' = [tx EXCEPT !.pc = "request",
                        !.checksum = sha256(src_file),
                        !.total_chunks = TotalChunks(tx.total_size)]
    /\ UNCHANGED <<src_file, transfers, writes, run, receiverVars, rxNet, last_status,
                   syncVars, registryVars, peer>>

\* send_sync_request: await self.nc.publish(SYNC_REQUEST_SUBJECT, metadata)
send_sync_request ==
    /\ tx.pc = "request"
    /\ rxNet' = rxNet \cup {[type |-> "SYNC_REQUEST",
                             sender_node_id |-> LocalNode,
                             total_chunks |-> tx.total_chunks,
                             checksum |-> tx.checksum]}
    /\ tx' = [tx EXCEPT !.pc = "subscribe_ack"]
    /\ UNCHANGED <<src_file, transfers, writes, run, receiverVars, last_status, syncVars,
                   registryVars, peer>>

\* sub = await self.nc.subscribe(SYNC_STATUS_SUBJECT, cb=ack_handler)
subscribe_ack ==
    /\ tx.pc = "subscribe_ack"
    /\ tx' = [tx EXCEPT !.pc = "wait_ack", !.sub = TRUE, !.i = 0]
    /\ UNCHANGED <<src_file, transfers, writes, run, receiverVars, rxNet, last_status,
                   syncVars, registryVars, peer>>

\* for i in range(10): if ack_received: break; await asyncio.sleep(1)
poll_ack ==
    /\ tx.pc = "wait_ack"
    /\ ~tx.ack_received
    /\ tx.i < AckWaitPolls
    /\ tx' = [tx EXCEPT !.i = @ + 1]
    /\ UNCHANGED <<src_file, transfers, writes, run, receiverVars, rxNet, last_status,
                   syncVars, registryVars, peer>>

\* The rest of a wait passes and nothing arrives: the polls that are left.
WaitExpires ==
    /\ \/ tx.pc = "wait_ack" /\ ~tx.ack_received /\ tx.i < AckWaitPolls
          /\ tx' = [tx EXCEPT !.i = AckWaitPolls]
       \/ tx.pc = "wait_import" /\ ~tx.import_complete /\ tx.i < ImportWaitPolls
          /\ tx' = [tx EXCEPT !.i = ImportWaitPolls]
    /\ UNCHANGED <<src_file, transfers, writes, run, receiverVars, rxNet, last_status,
                   syncVars, registryVars, peer>>

\* A sender that goes on without the acknowledgment.
ReadyAlways(t) == TRUE

\* if not ack_received: raise TimeoutError(...)
Ready(t) == t.ack_received

\* The end of sync(): return True, or except Exception ... return False
Returns(t, result) ==
    [Idle EXCEPT !.result = result, !.import_complete = t.import_complete]

\* await self.nc.unsubscribe(sub), then the TimeoutError or send_chunks
unsubscribe_ack ==
    /\ tx.pc = "wait_ack"
    /\ tx.ack_received \/ tx.i = AckWaitPolls
    /\ tx' = IF Ready(tx)
             THEN [tx EXCEPT !.pc = "chunks", !.sub = FALSE, !.chunk_num = 0,
                             !.offset = 0]
             ELSE Returns(tx, "False")
    /\ UNCHANGED <<src_file, transfers, writes, run, receiverVars, rxNet, last_status,
                   syncVars, registryVars, peer>>

\* chunk_data = f.read(CHUNK_SIZE) at the position the open file is at
ReadChunk(file, offset) ==
    SubSeq(file, offset + 1,
           IF offset + CHUNK_SIZE < Len(file) THEN offset + CHUNK_SIZE ELSE Len(file))

\* send_chunks: one round of the loop. At the end of the file the loop ends;
\* otherwise the chunk is published and the progress line divides by
\* total_chunks, which raises ZeroDivisionError when it is 0.
send_chunks ==
    /\ tx.pc = "chunks"
    /\ IF ReadChunk(src_file, tx.offset) = <<>>
       THEN /\ tx' = [tx EXCEPT !.pc = "complete"]
            /\ UNCHANGED <<rxNet, run>>
       ELSE /\ run' = [run EXCEPT !.sent = Append(@, ReadChunk(src_file, tx.offset))]
            /\ rxNet' = rxNet \cup
                   {[type |-> "CHUNK", chunk_num |-> tx.chunk_num,
                     data |-> ReadChunk(src_file, tx.offset),
                     chunk_hash |-> sha256(ReadChunk(src_file, tx.offset))]}
            /\ tx' = IF tx.total_chunks = 0
                     THEN Returns(tx, "False")
                     ELSE [tx EXCEPT !.chunk_num = @ + 1,
                                     !.offset = @ + Len(ReadChunk(src_file, tx.offset))]
    /\ UNCHANGED <<src_file, transfers, writes, receiverVars, last_status, syncVars,
                   registryVars, peer>>

\* complete_msg = {"type": "TRANSFER_COMPLETE", "sender_node_id": self.node_id, ...}
TransferComplete(node_id) == [type |-> "TRANSFER_COMPLETE", sender_node_id |-> node_id]

\* send_complete_signal: publish TRANSFER_COMPLETE
send_complete_signal ==
    /\ tx.pc = "complete"
    /\ rxNet' = rxNet \cup {TransferComplete(LocalNode)}
    /\ tx' = [tx EXCEPT !.pc = "subscribe_import"]
    /\ UNCHANGED <<src_file, transfers, writes, run, receiverVars, last_status, syncVars,
                   registryVars, peer>>

\* wait_for_import_complete: sub = await self.nc.subscribe(..., cb=complete_handler)
subscribe_import ==
    /\ tx.pc = "subscribe_import"
    /\ tx' = [tx EXCEPT !.pc = "wait_import", !.sub = TRUE, !.i = 0]
    /\ UNCHANGED <<src_file, transfers, writes, run, receiverVars, rxNet, last_status,
                   syncVars, registryVars, peer>>

\* for i in range(60): if import_complete: break; await asyncio.sleep(1)
poll_import ==
    /\ tx.pc = "wait_import"
    /\ ~tx.import_complete
    /\ tx.i < ImportWaitPolls
    /\ tx' = [tx EXCEPT !.i = @ + 1]
    /\ UNCHANGED <<src_file, transfers, writes, run, receiverVars, rxNet, last_status,
                   syncVars, registryVars, peer>>

\* A wait that fails the sync when no IMPORT_COMPLETE was seen.
UnknownIsFailure(t) == IF t.import_complete THEN "True" ELSE "False"

\* "Import status unknown (timeout)" or "complete"; sync() returns True
AfterImportWait(t) == "True"

\* await self.nc.unsubscribe(sub); the status is reported; return True
wait_for_import_complete ==
    /\ tx.pc = "wait_import"
    /\ tx.import_complete \/ tx.i = ImportWaitPolls
    /\ tx' = Returns(tx, AfterImportWait(tx))
    /\ UNCHANGED <<src_file, transfers, writes, run, receiverVars, rxNet, last_status,
                   syncVars, registryVars, peer>>

\* The relay delivers a message at most once: it may drop it.
Lose ==
    /\ \E m \in rxNet : rxNet' = rxNet \ {m}
    /\ UNCHANGED <<senderVars, receiverVars, last_status, syncVars, registryVars, peer>>

\* A chunk whose first byte is changed.
Flip(data) == [data EXCEPT ![1] = IF @ = "x" THEN "y" ELSE "x"]

\* A chunk message is altered between the sender and the receiver.
Corrupt ==
    /\ \E m \in rxNet :
          /\ m.type = "CHUNK"
          /\ sha256(m.data) = m.chunk_hash
          /\ rxNet' = (rxNet \ {m}) \cup {[m EXCEPT !.data = Flip(m.data)]}
    /\ UNCHANGED <<senderVars, receiverVars, last_status, syncVars, registryVars, peer>>

\* The statuses the receiver publishes.
SyncAck == [type |-> "SYNC_ACK", status |-> "ready"]
ChunkAck(chunk_num) ==
    [type |-> "CHUNK_ACK", status |-> "received", chunk_num |-> chunk_num]
ImportComplete == [type |-> "IMPORT_COMPLETE", status |-> "success"]

\* The sender's callback on the status subject, while it is subscribed:
\* ack_handler (status == 'ready') or complete_handler (type == 'IMPORT_COMPLETE')
StatusHandler(t, status) ==
    IF t.sub /\ t.pc = "wait_ack" /\ status.status = "ready"
    THEN [t EXCEPT !.ack_received = TRUE]
    ELSE IF t.sub /\ t.pc = "wait_import" /\ status.type = "IMPORT_COMPLETE"
    THEN [t EXCEPT !.import_complete = TRUE]
    ELSE t

\* APNDataSyncReceiver.handle_sync_request: store the metadata, reset the
\* chunks, publish SYNC_ACK
receiver_handle_sync_request ==
    /\ \E m \in rxNet :
          /\ m.type = "SYNC_REQUEST"
          /\ rxNet' = rxNet \ {m}
          /\ rx_metadata' = [sender_node_id |-> m.sender_node_id,
                             total_chunks |-> m.total_chunks,
                             checksum |-> m.checksum]
    /\ rx_chunks' = NoChunks
    /\ rx_keys' = <<>>
    /\ rx_last' = [rx_last EXCEPT !.outcome = "none", !.imports = 0]
    /\ last_status' = SyncAck
    /\ tx' = StatusHandler(tx, SyncAck)
    /\ peer' = StatusHandler(peer, SyncAck)
    /\ UNCHANGED <<src_file, transfers, writes, run, rx_imported, chunk_calls, syncVars,
                   registryVars>>

\* actual_hash = hashlib.sha256(chunk_data).hexdigest(); actual_hash != chunk_hash
HashMatches(m) == sha256(m.data) = m.chunk_hash

\* self.chunks[chunk_num] = chunk_data
StoreChunk(chunks, m) ==
    [i \in DOMAIN chunks \cup {m.chunk_num} |->
        IF i = m.chunk_num THEN m.data ELSE chunks[i]]

\* list(self.chunks.keys()) after the store: a new key goes last, a key
\* already present keeps its place
StoreKey(keys, m) ==
    IF \E i \in 1 .. Len(keys) : keys[i] = m.chunk_num
    THEN keys
    ELSE Append(keys, m.chunk_num)

\* handle_chunk: a chunk whose hash does not match is dropped; any other is
\* stored under its chunk_num, then the progress line divides by
\* total_chunks (ZeroDivisionError when the metadata says 0, logged by the
\* except clause), then CHUNK_ACK is published
handle_chunk ==
    /\ \E m \in rxNet :
          /\ m.type = "CHUNK"
          /\ rxNet' = rxNet \ {m}
          /\ IF ~HashMatches(m)
             THEN UNCHANGED <<rx_chunks, rx_keys, last_status, tx, peer>>
             ELSE IF rx_metadata # None /\ rx_metadata.total_chunks = 0
             THEN /\ rx_chunks' = StoreChunk(rx_chunks, m)
                  /\ rx_keys' = StoreKey(rx_keys, m)
                  /\ UNCHANGED <<last_status, tx, peer>>
             ELSE /\ rx_chunks' = StoreChunk(rx_chunks, m)
                  /\ rx_keys' = StoreKey(rx_keys, m)
                  /\ last_status' = ChunkAck(m.chunk_num)
                  /\ tx' = StatusHandler(tx, ChunkAck(m.chunk_num))
                  /\ peer' = StatusHandler(peer, ChunkAck(m.chunk_num))
    /\ chunk_calls' = 1 - chunk_calls
    /\ UNCHANGED <<src_file, transfers, writes, run, rx_metadata, rx_imported, rx_last,
                   syncVars, registryVars>>

RECURSIVE Join(_)
Join(parts) == IF parts = <<>> THEN <<>> ELSE Head(parts) \o Join(Tail(parts))

\* A receiver that writes the chunks in the order they were stored.
Unsorted(keys) == keys

\* sorted(self.chunks.keys())
Sorted(keys) ==
    CHOOSE f \in [1 .. Len(keys) -> {keys[i] : i \in 1 .. Len(keys)}] :
        \A i, j \in 1 .. Len(keys) : i < j => f[i] < f[j]

\* for i in sorted(self.chunks.keys()): f.write(self.chunks[i])
Reassemble(chunks, keys) ==
    Join([i \in 1 .. Len(keys) |-> chunks[Sorted(keys)[i]]])

\* if actual_checksum != self.metadata['checksum']: return
ChecksumVerified(chunks, keys, metadata) ==
    sha256(Reassemble(chunks, keys)) = metadata.checksum

\* The exit codes of the import script: 0, or a failure.
ReturnCodes == {0, 1}

\* import_data prints by result.returncode and returns nothing; the ack that
\* handle_complete builds after it says "success"
ImportStatus(returncode) == ImportComplete

\* handle_complete: write the chunks in index order, verify the checksum of
\* the file, import it, publish IMPORT_COMPLETE; without metadata the open of
\* temp_db_path raises and the handler logs it
handle_complete ==
    /\ \E m \in rxNet :
          /\ m.type = "TRANSFER_COMPLETE"
          /\ rxNet' = rxNet \ {m}
    /\ IF rx_metadata = None
       THEN /\ rx_last' = [rx_last EXCEPT !.n = @ + 1, !.outcome = "raised"]
            /\ UNCHANGED <<rx_imported, last_status, tx, peer>>
       ELSE IF ~ChecksumVerified(rx_chunks, rx_keys, rx_metadata)
       THEN /\ rx_last' = [rx_last EXCEPT !.n = @ + 1, !.outcome = "mismatch"]
            /\ UNCHANGED <<rx_imported, last_status, tx, peer>>
       ELSE \E returncode \in ReturnCodes :
            /\ rx_last' = [n |-> rx_last.n + 1,
                           outcome |-> "imported",
                           returncode |-> returncode,
                           imports |-> IF returncode = 0
                                       THEN rx_last.imports + 1
                                       ELSE rx_last.imports]
            /\ rx_imported' = Reassemble(rx_chunks, rx_keys)
            /\ last_status' = ImportStatus(returncode)
            /\ tx' = StatusHandler(tx, ImportStatus(returncode))
            /\ peer' = StatusHandler(peer, ImportStatus(returncode))
    /\ UNCHANGED <<src_file, transfers, writes, run, rx_metadata, rx_chunks, rx_keys,
                   chunk_calls, syncVars, registryVars>>

\* The receiver as the sender sees it: it takes a message off a subject, or
\* none, and publishes one of its statuses, or none.
ReceiverReplies ==
    /\ \/ UNCHANGED rxNet
       \/ \E m \in rxNet : rxNet' = rxNet \ {m}
    /\ \/ UNCHANGED tx
       \/ \E status \in {SyncAck, ImportComplete} \cup {ChunkAck(0)} :
             tx' = StatusHandler(tx, status)
    /\ UNCHANGED <<src_file, transfers, writes, run, receiverVars, last_status, syncVars,
                   registryVars, peer>>

\* The sender's sync() against any receiver, every poll of its waits a step.
SenderNext ==
    \/ SourceWrite
    \/ stat_file
    \/ calculate_metadata
    \/ send_sync_request
    \/ subscribe_ack
    \/ poll_ack
    \/ unsubscribe_ack
    \/ send_chunks
    \/ send_complete_signal
    \/ subscribe_import
    \/ poll_import
    \/ wait_for_import_complete
    \/ ReceiverReplies

SenderSpec == Init /\ [][SenderNext]_vars

\* asyncio.sleep(1) returns and the loop of wait_for_import_complete goes on:
\* a poll that can be taken is taken, and so is the end of the wait
SenderLiveSpec ==
    /\ SenderSpec
    /\ WF_vars(poll_import)
    /\ WF_vars(wait_for_import_complete)

\* The sender's sync(), the relay and the receiver's three callbacks; a wait
\* of the sender ends with the status it waits for or expires in one step.
ReceiverNext ==
    \/ SourceWrite
    \/ stat_file
    \/ calculate_metadata
    \/ send_sync_request
    \/ subscribe_ack
    \/ WaitExpires
    \/ unsubscribe_ack
    \/ send_chunks
    \/ send_complete_signal
    \/ subscribe_import
    \/ wait_for_import_complete
    \/ Lose
    \/ Corrupt
    \/ receiver_handle_sync_request
    \/ handle_chunk
    \/ handle_complete

ReceiverSpec == Init /\ [][ReceiverNext]_vars

\* A second run of apn_data_sync_sender.py, on another node and with its own
\* file, on the same four subjects; each publish with the subscribe that
\* follows it, and each wait, is one step.
PeerFile == <<"y">>

\* send_sync_request on the peer: the metadata is published and ack_handler
\* subscribed to the status subject
peer_send_sync_request ==
    /\ peer.pc = "idle"
    /\ peer.result = "none"
    /\ rxNet' = rxNet \cup {[type |-> "SYNC_REQUEST",
                             sender_node_id |-> PeerNode,
                             total_chunks |-> TotalChunks(Len(PeerFile)),
                             checksum |-> sha256(PeerFile)]}
    /\ peer' = [peer EXCEPT !.pc = "wait_ack", !.sub = TRUE,
                            !.total_size = Len(PeerFile),
                            !.total_chunks = TotalChunks(Len(PeerFile)),
                            !.checksum = sha256(PeerFile)]
    /\ UNCHANGED <<senderVars, receiverVars, last_status, syncVars, registryVars>>

\* the wait of the peer ends, with the ack or after ten polls: unsubscribe,
\* then the TimeoutError or send_chunks
peer_unsubscribe_ack ==
    /\ peer.pc = "wait_ack"
    /\ peer' = IF Ready(peer)
               THEN [peer EXCEPT !.pc = "chunks", !.sub = FALSE]
               ELSE Returns(peer, "False")
    /\ UNCHANGED <<senderVars, receiverVars, rxNet, last_status, syncVars,
                   registryVars>>

\* send_chunks on the peer: every chunk of its file is published
peer_send_chunks ==
    /\ peer.pc = "chunks"
    /\ rxNet' = rxNet \cup
          {[type |-> "CHUNK", chunk_num |-> k,
            data |-> ReadChunk(PeerFile, k * CHUNK_SIZE),
            chunk_hash |-> sha256(ReadChunk(PeerFile, k * CHUNK_SIZE))] :
             k \in 0 .. peer.total_chunks - 1}
    /\ peer' = [peer EXCEPT !.pc = "complete", !.chunk_num = peer.total_chunks]
    /\ UNCHANGED <<senderVars, receiverVars, last_status, syncVars, registryVars>>

\* send_complete_signal and the subscribe of wait_for_import_complete
peer_send_complete_signal ==
    /\ peer.pc = "complete"
    /\ rxNet' = rxNet \cup {TransferComplete(PeerNode)}
    /\ peer' = [peer EXCEPT !.pc = "wait_import", !.sub = TRUE]
    /\ UNCHANGED <<senderVars, receiverVars, last_status, syncVars, registryVars>>

\* the wait for IMPORT_COMPLETE ends, with it or after sixty polls
peer_wait_for_import_complete ==
    /\ peer.pc = "wait_import"
    /\ peer' = Returns(peer, AfterImportWait(peer))
    /\ UNCHANGED <<senderVars, receiverVars, rxNet, last_status, syncVars,
                   registryVars>>

\* Two senders and the receiver on the shared subjects; the files are not
\* written to during the transfers and the relay alters nothing.
SharedNext ==
    \/ stat_file
    \/ calculate_metadata
    \/ send_sync_request
    \/ subscribe_ack
    \/ WaitExpires
    \/ unsubscribe_ack
    \/ send_chunks
    \/ send_complete_signal
    \/ subscribe_import
    \/ wait_for_import_complete
    \/ Lose
    \/ receiver_handle_sync_request
    \/ handle_chunk
    \/ handle_complete
    \/ peer_send_sync_request
    \/ peer_unsubscribe_ack
    \/ peer_send_chunks
    \/ peer_send_complete_signal
    \/ peer_wait_for_import_complete

SharedSpec == Init /\ [][SharedNext]_vars

ClientNext ==
    \E t \in Tasks :
        \/ Guard(t)
        \/ Connect(t)
        \/ GetVersion(t)
        \/ GetChecksum(t)
        \/ Export(t)
        \/ Publish(t)
        \/ Subscribe(t)
        \/ Poll(t)
        \/ Unsubscribe(t)
        \/ Commit(t)

\* handle_sync_request as the client sees it: the provider takes an envelope
\* off its sync subject and either publishes the acknowledgment or fails
\* before it does.
ProviderReplies ==
    /\ \E m \in syncNet :
          /\ syncNet' = syncNet \ {m}
          /\ \/ ackNet' = ackNet \cup {Ack(m, b64decode(m.data))}
             \/ UNCHANGED ackNet
    /\ UNCHANGED <<clientVars, storeVars, sideVars, providerVars, peer_syncs, tampers>>

\* The client on its own, against any provider.
ClientSpecNext ==
    \/ DbWrite
    \/ ClientNext
    \/ ProviderReplies
    \/ RouteAck

ClientSpec == Init /\ [][ClientSpecNext]_vars

\* The statements of sync_to_provider after the guard, for one call.
Proceed(t) ==
    \/ Connect(t)
    \/ GetVersion(t)
    \/ GetChecksum(t)
    \/ Export(t)
    \/ Publish(t)
    \/ Subscribe(t)
    \/ Poll(t)
    \/ Unsubscribe(t)
    \/ Commit(t)

\* Every await of a call returns or raises and asyncio.sleep(1) returns: a
\* call that is past the guard takes its next step.
ClientLiveSpec ==
    /\ ClientSpec
    /\ \A t \in Tasks : WF_vars(Proceed(t))

\* StorageReplicationClient.__init__ in a new process on the same store: no
\* call of the old client is left, self.nc = None, self.last_sync_version = 0,
\* self.is_syncing = False; the data_replication_state table is not read.
NewClient ==
    /\ \A t \in Tasks : pc[t] = "idle"
    /\ subs = {}
    /\ nc' = "none"
    /\ last_sync_version' = 0
    /\ is_syncing' = FALSE
    /\ refused' = FALSE
    /\ UNCHANGED <<pc, loc, subs, repl_state, calls, last_call, storeVars, sideVars,
                   providerVars, syncNet, ackNet, peer_syncs, tampers>>

\* The client against any provider, with restarts of its process.
RestartNext ==
    \/ ClientSpecNext
    \/ NewClient

RestartSpec == Init /\ [][RestartNext]_vars

\* The sync path end to end: the client, the channel and the provider's
\* sync handler.
Next ==
    \/ DbWrite
    \/ ClientNext
    \/ RouteAck
    \/ handle_sync_request

Spec == Init /\ [][Next]_vars

\* The provider on its own, fed by the clients of the source devices; its
\* acknowledgments stay on record in ackNet.
ProviderNext ==
    \/ SourceSync
    \/ Tamper
    \/ handle_sync_request
    \/ serve_data_request

ProviderInit == Init /\ db_version = 0

ProviderSpec == ProviderInit /\ [][ProviderNext]_vars

\* ================================================================ claims
InFlightTasks == {t \in Tasks : pc[t] \in InFlight}

\* No call that passed the guard takes a step.
NoCallMoves ==
    \A u \in Tasks : pc[u] \in InFlight => (pc'[u] = pc[u] /\ loc'[u] = loc[u])

\* C1: under any interleaving of sync_to_provider calls on one client at most
\* one call is past the is_syncing guard, and the flag is set exactly while
\* one is; a step in which no such call moves (a call refused at the guard
\* among them) publishes nothing, leaves last_sync_version and the
\* replication-state record alone and does not clear the flag.
C1_SingleFlight ==
    [][ /\ Cardinality(InFlightTasks') <= 1
        /\ is_syncing' <=> (InFlightTasks' # {})
        /\ (is_syncing /\ NoCallMoves) =>
              /\ is_syncing'
              /\ syncNet' \subseteq syncNet
              /\ last_sync_version' = last_sync_version
              /\ repl_state' = repl_state ]_vars

\* A call waits for its acknowledgment while another call was refused.
C1_Witness ==
    \E t, u \in Tasks :
        /\ pc[t] = "wait" /\ loc[t].published = 1
        /\ pc[u] = "idle"
        /\ refused
        /\ is_syncing

\* A call returns in this step and another call had returned before it, with
\* no change of the computed version since that one began.
ConsecutiveCalls ==
    /\ last_call.req # 0
    /\ last_call'.req = last_call.req + 1
    /\ last_call.start = version_changes'

Ran(call) == call.outcome \in {"ok", "timeout", "no_change"}

\* C2 as stated, read for a first call that did publish: two consecutive
\* calls with no change of the computed version between them, neither
\* raising, publish exactly once (the second short-circuits).
C2_ExactlyOnePublish ==
    [][ (ConsecutiveCalls /\ Ran(last_call) /\ Ran(last_call')
              /\ last_call.published = 1) =>
            /\ last_call'.published = 0
            /\ last_call'.outcome = "no_change" ]_vars

\* C2, amended: two consecutive calls with no change of the computed version
\* between them, the first of which published and was acknowledged, publish
\* exactly once: the second publishes nothing, it short-circuits on the
\* version (or raises before it gets there).
C2_OnePublishAfterAck ==
    [][ (ConsecutiveCalls /\ last_call.outcome = "ok") =>
            /\ last_call.published = 1
            /\ last_call'.published = 0
            /\ last_call'.outcome \in {"no_change", "raised"} ]_vars

\* The second of two calls short-circuited after the first was acknowledged.
C2_Witness ==
    /\ last_call.req = 2
    /\ last_call.outcome = "no_change"
    /\ version_changes = 0
    /\ last_sync_version = db_version
    /\ last_sync_version # 0
    /\ last_call.published = 0

\* C3: last_sync_version and the replication-state record change only in the
\* step that ends a call whose ack_received is set, and ack_received is set
\* only by a positive acknowledgment routed to the call's subscription.
C3_CommitOnlyOnAck ==
    [][ /\ (last_sync_version' # last_sync_version \/ repl_state' # repl_state)
            => \E t \in Tasks : /\ pc[t] = "commit"
                                /\ pc'[t] = "idle"
                                /\ loc[t].ack_received
        /\ \A t \in Tasks :
              (loc'[t].ack_received /\ ~loc[t].ack_received)
                 => /\ t \in subs
                    /\ \E a \in ackNet : /\ a.success
                                         /\ a.to = ClientId
                                         /\ ackNet' = ackNet \ {a} ]_vars

\* A call timed out after publishing and nothing was committed.
C3_Witness ==
    /\ last_call.req # 0
    /\ last_call.outcome = "timeout"
    /\ last_call.published = 1
    /\ last_sync_version = 0
    /\ repl_state = NoRecord

\* C4 as stated: a call for whose request a positive acknowledgment reached
\* the channel between its publish and the end of its wait commits: it sets
\* last_sync_version to the version sent, writes the record, is unsubscribed.
C4_AckInWindowCommits ==
    [][ \A t \in Tasks :
          (pc[t] = "commit" /\ pc'[t] = "idle" /\ loc[t].window_ack) =>
              /\ last_sync_version' = loc[t].version
              /\ repl_state' = [version |-> loc[t].version,
                                checksum |-> loc[t].checksum]
              /\ t \notin subs' ]_vars

\* C5: a call never polls more than 30 times and never publishes twice; its
\* subscription exists only while it waits; it leaves the wait only with the
\* acknowledgment or after the 30th poll; a timed-out call published once.
C5_BoundedWait ==
    /\ \A t \in Tasks :
          /\ loc[t].i <= AckPolls
          /\ loc[t].published <= 1
          /\ t \in subs => pc[t] = "wait"
          /\ pc[t] = "commit" => (loc[t].ack_received \/ loc[t].i = AckPolls)
    /\ (last_call.req # 0 /\ last_call.outcome = "timeout")
          => last_call.published = 1

\* A call polled 30 times without acknowledgment and is unsubscribed.
C5_Witness ==
    \E t \in Tasks :
        /\ pc[t] = "commit"
        /\ loc[t].i = AckPolls
        /\ ~loc[t].ack_received
        /\ t \notin subs

FailedRequest(r) == r \in failed

\* C6 as stated: for a request whose handling failed no acknowledgment is
\* published, and the wait of the call that sent it does not end with
\* ack_received set (it ends by timeout).
C6_FailedRequestTimesOut ==
    /\ \A a \in ackNet : ~FailedRequest(a.req)
    /\ (last_call.req # 0 /\ last_call.outcome = "ok")
          => ~FailedRequest(last_call.req)

Intact(checksum) == checksum[2].intact

\* C7 as stated: no replica file, index record or acknowledgment of the
\* provider comes from a ciphertext that was altered after the client
\* encrypted it.
C7_NoAlteredCiphertext ==
    /\ \A d \in Devices :
          /\ (files[d] # NoRecord /\ files[d] # TruncatedFile) => files[d].intact
          /\ replicas[d] # NoRecord => Intact(replicas[d].encrypted_checksum)
    /\ \A a \in ackNet : Intact(a.checksum)

NeverRemoved == \A d \in Devices : replicas[d] # NoRecord => replicas'[d] # NoRecord

\* C8 as stated: the record of a source is the one of the most recently
\* processed successful request from it, and no record is ever removed.
C8_LatestSuccessfulWins ==
    [][ (\A d \in Devices : replicas'[d] = last_ok'[d]) /\ NeverRemoved ]_vars

\* C8, amended: the record of a source is the one of the most recently
\* processed request from it whose replica file write returned, acknowledged
\* or not, whatever the order of the versions; no record is ever removed.
C8_LatestStoredWins ==
    [][ (\A d \in Devices : replicas'[d] = last_stored'[d]) /\ NeverRemoved ]_vars

\* A source's acknowledged request was followed by a stored request with a
\* lower version, and the record is the later one.
C8_Witness ==
    \E d \in Devices :
        /\ replicas[d] # NoRecord
        /\ last_ok[d] # NoRecord
        /\ replicas[d].version < last_ok[d].version
        /\ replicas[d].req > last_ok[d].req

\* C9 as stated: every index entry points to a completely written file whose
\* hash is the entry's ciphertext checksum.
C9_IndexMatchesFile ==
    \A d \in Devices :
        replicas[d] # NoRecord =>
            /\ files[d] # NoRecord
            /\ files[d] # TruncatedFile
            /\ replicas[d].encrypted_checksum = sha256(files[d])

\* data.get("success") of a response
Success(response) == "success" \in DOMAIN response /\ response.success

\* C10 as stated: a stored replica file is never left truncated by a later
\* write, and no serve response carries a ciphertext that does not hash to
\* the checksum it is served under.
C10_NoHalfWrittenReplica ==
    /\ \A d \in Devices : last_stored[d] # NoRecord => files[d] # TruncatedFile
    /\ Success(last_response) =>
          sha256(b64decode(last_response.data)) = last_response.checksum

\* A serve response carries a truncated file under a stored version.
C10_TruncatedServed ==
    /\ Success(last_response)
    /\ b64decode(last_response.data) = TruncatedFile

\* C11 as stated: across handle_sync_request and serve_data_request steps the
\* contract's actual_storage_used_gb and total_data_transferred_gb never
\* decrease.
C11_CountersNeverDecrease ==
    [][storage_used' >= storage_used /\ transferred' >= transferred]_vars

\* A serve request is handled in this step.
ServeStep == served'.n # served.n

\* C12: a serve request for a source with no entry in the replica index is
\* answered with the error "No replica available" (unless the publish itself
\* raises, which the handler swallows), success is never reported for it, and
\* the replica index, the replica files and the transfer counter stay as they
\* were.
C12_ServeMiss ==
    [][ (ServeStep /\ ServeMiss(served'.device)) =>
            /\ served'.outcome \in {"miss", "raised"}
            /\ served'.outcome = "miss" =>
                  /\ "error" \in DOMAIN last_response'
                  /\ last_response'.error = "No replica available"
                  /\ ~Success(last_response')
            /\ UNCHANGED <<replicas, files, transferred>> ]_vars

\* A serve request missed for one source while another source has a replica.
C12_Witness ==
    /\ served.n # 0
    /\ served.outcome = "miss"
    /\ replicas[served.device] = NoRecord
    /\ last_response = [error |-> "No replica available"]
    /\ \E d \in Devices : replicas[d] # NoRecord

\* C13 as stated: a serve request for a source that has a replica, handled
\* to the end, publishes a success response that carries the stored file
\* with the version recorded for it and a checksum that is the hash of the
\* ciphertext carried, raises the transfer counter by the replica's
\* ciphertext size, and leaves index and file alone.
C13_ServeHit ==
    [][ (ServeStep /\ served'.outcome = "sent") =>
            /\ Success(last_response')
            /\ b64decode(last_response'.data) = files[served'.device]
            /\ last_response'.version = replicas[served'.device].version
            /\ last_response'.checksum = replicas[served'.device].encrypted_checksum
            /\ last_response'.checksum = sha256(b64decode(last_response'.data))
            /\ transferred' = transferred + replicas[served'.device].encrypted_size
            /\ UNCHANGED <<replicas, files>> ]_vars

ParseIso(stamp) == 2 * (10 * stamp[1] + stamp[2]) + (IF Len(stamp) > 2 THEN 1 ELSE 0)

\* the UPDATE of update_heartbeat runs in this step
HeartbeatStep == hb # NoHeartbeat /\ hb' = NoHeartbeat

\* the UPDATE of check_stale_devices runs in this step
SweepStep == sweep # NoSweep /\ sweep' = NoSweep

\* C15: update_heartbeat(id) on a registered device sets is_online and sets
\* last_heartbeat and last_seen to the time of the call, and changes no other
\* column and no other device; on an unknown id it leaves the registry as it
\* was and creates no row.
C15_HeartbeatFrame ==
    [][ HeartbeatStep =>
          /\ hb.at <= now
          /\ \A id \in Ids \ {hb.id} : registry'[id] = registry[id]
          /\ registry[hb.id] = NoRow => registry'[hb.id] = NoRow
          /\ registry[hb.id] # NoRow =>
                registry'[hb.id] = [registry[hb.id] EXCEPT
                                       !.is_online = TRUE,
                                       !.last_heartbeat = IsoFormat(hb.at),
                                       !.last_seen = IsoFormat(hb.at)] ]_vars

\* a heartbeat has revived a swept device while another device, never heard
\* of since its registration, kept its row
C15_Witness ==
    /\ hb = NoHeartbeat
    /\ \E id \in Ids, other \in Ids :
          /\ id # other
          /\ registry[id] # NoRow /\ registry[other] # NoRow
          /\ swept_at[id] > 0
          /\ registry[id].is_online
          /\ registry[id].last_heartbeat = registry[id].last_seen
          /\ registry[id].last_heartbeat = IsoFormat(now)
          /\ registry[other].last_heartbeat = NULL
          /\ registry[other].last_seen # IsoFormat(now)

\* the rows a sweep must take: online, heartbeat older than the call's time
\* minus its timeout
Overdue ==
    {id \in Ids :
        /\ registry[id] # NoRow
        /\ registry[id].is_online
        /\ registry[id].last_heartbeat # NULL
        /\ ParseIso(registry[id].last_heartbeat) < sweep.at - 2 * sweep.timeout_minutes}

\* C16: check_stale_devices(timeout) sets is_online false for exactly the
\* online devices whose last_heartbeat is older than now minus timeout,
\* returns their number, and leaves every other device untouched.
C16_SweepExact ==
    [][ SweepStep =>
          /\ \A id \in Overdue :
                registry'[id] = [registry[id] EXCEPT !.is_online = FALSE]
          /\ \A id \in Ids \ Overdue : registry'[id] = registry[id]
          /\ affected' = Cardinality(Overdue)
          /\ Overdue # {} => affected' >= 1 ]_vars

\* the last sweep took one device and left online a device whose heartbeat is
\* exactly as old as the cutoff
C16_Witness ==
    /\ sweep = NoSweep
    /\ affected = 1
    /\ \E id \in Ids, other \in Ids :
          /\ registry[id] # NoRow /\ registry[other] # NoRow
          /\ ~registry[id].is_online
          /\ swept_at[id] > 0
          /\ ParseIso(registry[id].last_heartbeat) < swept_at[id]
          /\ registry[other].is_online
          /\ registry[other].last_heartbeat # NULL
          /\ ParseIso(registry[other].last_heartbeat) = swept_at[id]

\* C17: under any interleaving of heartbeats and sweeps no heartbeat is lost:
\* a heartbeat's UPDATE leaves its device online with the heartbeat's
\* timestamp, whatever a sweep did before it, and a device goes offline only
\* in a sweep's UPDATE and only while the heartbeat its row holds is older
\* than that sweep's cutoff.
C17_NoHeartbeatLost ==
    [][ \A id \in Ids : registry[id] # NoRow =>
          /\ (HeartbeatStep /\ hb.id = id) =>
                /\ registry'[id].is_online
                /\ registry'[id].last_heartbeat = hb.stamp
          /\ (registry[id].is_online /\ ~registry'[id].is_online) =>
                /\ SweepStep
                /\ registry[id].last_heartbeat # NULL
                /\ ParseIso(registry[id].last_heartbeat)
                       < sweep.at - 2 * sweep.timeout_minutes
                /\ registry'[id].last_heartbeat = registry[id].last_heartbeat ]_vars

\* a heartbeat stamped before a sweep's cutoff was applied after that sweep had
\* taken the device, and the device is online
C17_Witness ==
    \E id \in Ids :
        /\ registry[id] # NoRow
        /\ registry[id].is_online
        /\ swept_at[id] > 0
        /\ registry[id].last_heartbeat # NULL
        /\ ParseIso(registry[id].last_heartbeat) < swept_at[id]
        /\ hb = NoHeartbeat /\ sweep = NoSweep

\* C18: registering a device that is already registered updates its row
\* instead of adding one: the registry never holds two rows of one device.
C18_OneRowPerDevice ==
    \A id \in Ids, other \in Ids :
        (id # other /\ registry[id] # NoRow /\ registry[other] # NoRow)
            => registry[id].device # registry[other].device

\* C19: in every registry state a device that accepts storage contracts also
\* serves data.
C19_AcceptsImpliesServes ==
    \A id \in Ids :
        (registry[id] # NoRow /\ registry[id].accepts_storage_contracts)
            => registry[id].serves_data

\* ---------------------------------------------------------- chunked transfer claims
\* handle_complete ran in this step
CompleteStep == rx_last'.n # rx_last.n

\* C20: the receiver hands a reassembled file to the import step only if the
\* number of distinct chunk indices received equals the declared total_chunks
\* and the hash of the reassembled file equals the declared checksum; on a
\* checksum mismatch nothing is imported and IMPORT_COMPLETE is not published.
C20_ImportOnlyComplete ==
    [][ (CompleteStep /\ rx_metadata # None) =>
          /\ rx_last'.outcome = "imported" =>
                /\ Cardinality(DOMAIN rx_chunks) = rx_metadata.total_chunks
                /\ sha256(Reassemble(rx_chunks, rx_keys)) = rx_metadata.checksum
          /\ sha256(Reassemble(rx_chunks, rx_keys)) # rx_metadata.checksum =>
                /\ rx_last'.outcome = "mismatch"
                /\ UNCHANGED <<rx_imported, last_status>> ]_vars

\* handle_chunk ran in this step, on the message the step took off the subject
ChunkStep == chunk_calls' # chunk_calls
ChunkHandled == CHOOSE m \in rxNet : m \notin rxNet'

\* C21: a chunk message whose data does not hash to its chunk_hash is not
\* stored and no CHUNK_ACK is published for it; a chunk with a matching hash
\* is stored under its chunk_num and acknowledged.
C21_ChunkHashChecked ==
    [][ ChunkStep =>
          /\ ChunkHandled.type = "CHUNK"
          /\ sha256(ChunkHandled.data) # ChunkHandled.chunk_hash =>
                UNCHANGED <<rx_chunks, last_status>>
          /\ sha256(ChunkHandled.data) = ChunkHandled.chunk_hash =>
                /\ DOMAIN rx_chunks' = DOMAIN rx_chunks \cup {ChunkHandled.chunk_num}
                /\ rx_chunks'[ChunkHandled.chunk_num] = ChunkHandled.data
                /\ \A i \in DOMAIN rx_chunks \ {ChunkHandled.chunk_num} :
                      rx_chunks'[i] = rx_chunks[i]
                /\ last_status' = [type |-> "CHUNK_ACK", status |-> "received",
                                   chunk_num |-> ChunkHandled.chunk_num] ]_vars

\* the file whose checksum the stored metadata declares, and the chunks of a
\* file by index
Declared == rx_metadata.checksum[2]
ChunksOf(file) ==
    [n \in 0 .. ((Len(file) + CHUNK_SIZE - 1) \div CHUNK_SIZE) - 1 |->
        SubSeq(file, n * CHUNK_SIZE + 1,
               IF (n + 1) * CHUNK_SIZE < Len(file) THEN (n + 1) * CHUNK_SIZE
                                                    ELSE Len(file))]
Without(chunks, n) == [i \in DOMAIN chunks \ {n} |-> chunks[i]]

\* C22: what the receiver reconstructs depends only on the set of (index,
\* bytes) pairs it holds: with the chunks of the declared file stored in any
\* order the completion reassembles that file, passes the checksum and
\* imports it; with one of those chunks missing the completion fails and
\* nothing is imported.
C22_AnyOrderReconstructs ==
    [][ (CompleteStep /\ rx_metadata # None) =>
          /\ rx_chunks = ChunksOf(Declared) =>
                /\ rx_last'.outcome = "imported"
                /\ rx_imported' = Declared
          /\ (\E n \in DOMAIN ChunksOf(Declared) :
                  rx_chunks = Without(ChunksOf(Declared), n)) =>
                /\ rx_last'.outcome = "mismatch"
                /\ UNCHANGED rx_imported ]_vars

\* a file of two chunks was imported after chunk 1 was stored before chunk 0
C22_Witness ==
    /\ rx_last.outcome = "imported"
    /\ rx_keys = <<1, 0>>
    /\ Len(rx_imported) = MaxBytes
    /\ rx_imported = Declared

\* C23: a completion that arrives while fewer chunks are stored than the
\* request declared fails the transfer and imports nothing, and once a
\* completion has failed no later completion imports until a new sync request
\* has been handled.
C23_FailedStaysFailed ==
    [][ CompleteStep =>
          /\ (rx_metadata # None
                 /\ Cardinality(DOMAIN rx_chunks) < rx_metadata.total_chunks) =>
                /\ rx_last'.outcome = "mismatch"
                /\ UNCHANGED rx_imported
          /\ rx_last.outcome = "mismatch" => rx_last'.outcome # "imported" ]_vars

\* ---------------------------------------------------------- sender claims
\* send_chunks published a chunk in this step; send_complete_signal published
\* the completion in this step; the wait for the acknowledgment ended in
\* this step without one
ChunkPublished == Len(run'.sent) > Len(run.sent)
CompletePublished == tx.pc = "complete" /\ tx'.pc # "complete"
AckWaitTimedOut == tx.pc = "wait_ack" /\ tx'.pc # "wait_ack" /\ ~tx.ack_received

\* C24: the sender publishes a chunk only after it received a ready
\* acknowledgment, the chunks carry the indices 0, 1, 2, ... in the order they
\* are published, and the completion is published only after every chunk of
\* the file; when no ready acknowledgment arrives within the 10 polls of the
\* wait, the run publishes no chunk and no completion and sync returns False.
C24_ChunksAfterReadyInOrder ==
    [][ /\ ChunkPublished =>
              /\ tx.ack_received
              /\ \E m \in rxNet' :
                    /\ m.type = "CHUNK"
                    /\ m.chunk_num = Len(run.sent)
                    /\ m.data = run'.sent[Len(run'.sent)]
        /\ CompletePublished =>
              /\ tx.ack_received
              /\ TransferComplete(LocalNode) \in rxNet'
              /\ run.stable => Join(run.sent) = src_file
        /\ AckWaitTimedOut =>
              /\ tx.i = AckWaitPolls
              /\ tx'.pc = "idle"
              /\ tx'.result = "False"
              /\ run'.sent = <<>>
              /\ UNCHANGED rxNet ]_vars

\* the completion of a run that published two chunks is out
C24_Witness ==
    /\ tx.pc = "subscribe_import"
    /\ Len(run.sent) = 2
    /\ run.stable
    /\ TransferComplete(LocalNode) \in rxNet

Indexed(sent) == [n \in 0 .. Len(sent) - 1 |-> sent[n + 1]]
Ceil(a, b) == CHOOSE n \in 0 .. a : n * b >= a /\ (n = 0 \/ (n - 1) * b < a)

\* C26: for a file B that is not written during the run and the chunk size S,
\* the sender publishes exactly ceil(|B| / S) chunks before the completion,
\* which is the total_chunks it declared; the chunks carry the indices
\* 0 .. n-1, each holds between 1 and S bytes and their concatenation in index
\* order is B; a receiver that holds these chunks reassembles B, passes the
\* checksum and imports B; the empty file gives zero chunks and an empty
\* reassembled file that is accepted.
C26_ChunkingRoundTrip ==
    [][ /\ (ChunkPublished /\ run.stable) =>
              \E m \in rxNet' :
                  /\ m.type = "CHUNK"
                  /\ m.chunk_num = Len(run.sent)
                  /\ m.chunk_num < tx.total_chunks
                  /\ m.data = run'.sent[Len(run'.sent)]
                  /\ Len(m.data) \in 1 .. CHUNK_SIZE
        /\ (CompletePublished /\ run.stable) =>
              /\ Len(run.sent) = Ceil(Len(src_file), CHUNK_SIZE)
              /\ Len(run.sent) = tx.total_chunks
              /\ Join(run.sent) = src_file
        /\ (CompleteStep /\ rx_metadata # None /\ run.stable
               /\ Join(run.sent) = src_file
               /\ rx_metadata.checksum = sha256(src_file)
               /\ rx_chunks = Indexed(run.sent)) =>
              /\ rx_last'.outcome = "imported"
              /\ rx_imported' = src_file ]_vars

\* a file of three bytes, unchanged during the run, was sent as two chunks
\* and imported
C26_Witness ==
    /\ run.stable
    /\ Len(src_file) = MaxBytes
    /\ Len(run.sent) = 2
    /\ rx_chunks = Indexed(run.sent)
    /\ rx_last.outcome = "imported"
    /\ rx_imported = src_file

\* the empty file was sent as no chunk at all and imported
C26_EmptyWitness ==
    /\ run.stable
    /\ src_file = <<>>
    /\ tx.pc \in {"subscribe_import", "wait_import"}
    /\ rx_chunks = NoChunks
    /\ rx_last.outcome = "imported"
    /\ rx_imported = <<>>

\* ------------------------------------------------------ auto-sync service
\* What a field of the configuration file can hold, and the files there can be.
ConfigValues == {"absent", "", "set"}
Configs ==
    [enabled : {"absent", "false", "true"}, database_path : ConfigValues,
     device_id : ConfigValues, provider_device_id : ConfigValues,
     encryption_password : ConfigValues, db_exists : BOOLEAN]

\* not self.config.get(field)
Falsy(value) == value \in {"absent", ""}

\* self.config.get("enabled", False)
Enabled(config) == config.enabled = "true"

\* A validation that accepts every configuration.
ValidatesNothing(config) == TRUE

\* validate_config: the four required fields, then the database file
validate_config(config) ==
    /\ ~Falsy(config.database_path)
    /\ ~Falsy(config.device_id)
    /\ ~Falsy(config.provider_device_id)
    /\ ~Falsy(config.encryption_password)
    /\ config.db_exists

\* How a call of sync_to_provider can end: the provider acknowledged, nothing
\* had changed, the call was refused because a sync was in progress, no
\* acknowledgment came within the wait, an exception was caught and logged
\* inside the call, or an exception left the call (raised before the try
\* block or inside its handlers).
Outcomes == {"synced", "no_change", "timeout", "error", "raised"}
LoopOutcomes == Outcomes \cup {"refused"}

\* What sync_to_provider returns to its caller: every path that returns ends
\* in a bare return or falls off the end of the function.
Result(outcome) == IF outcome = "raised" THEN "exception" ELSE "None"

\* A handler that lets the exception through.
LetsThrough(outcome) == outcome # "raised"

\* try: await self.sync_to_provider() except Exception as e: print(...)
ExceptException(outcome) == TRUE

\* sync_once: "Sync completed" after the call returned, "Sync failed" in the
\* except clause
SyncOnceLog(outcome) == IF outcome = "raised" THEN "failed" ELSE "completed"

\* AutoSyncService.__init__: self.config = self.load_config()
load_config ==
    /\ service.pc = "init"
    /\ \E config \in Configs :
          service' = [service EXCEPT !.pc = "created", !.config = config]
    /\ UNCHANGED <<auto, restVars>>

\* run() up to its first await: the enabled test, validate_config,
\* self.running = True, and setup_client up to the connect of the new client
service_run ==
    /\ service.pc = "created"
    /\ service' =
          IF ~Enabled(service.config)
          THEN [service EXCEPT !.pc = "returned", !.report = "disabled"]
          ELSE IF ~validate_config(service.config)
          THEN [service EXCEPT !.pc = "returned", !.report = "invalid"]
          ELSE [service EXCEPT !.pc = "connecting", !.running = TRUE,
                               !.client = TRUE, !.nc = "connecting"]
    /\ UNCHANGED <<auto, restVars>>

\* setup_client: await self.client.connect() raises, which ends run(), or
\* returns, and run() goes on into the initial sync_once without a look at
\* self.running. What a connect makes of a connection that stop() closed in
\* the meantime is left open.
setup_client ==
    /\ service.pc = "connecting"
    /\ \/ service' = [service EXCEPT !.pc = "raised"]
       \/ \E state \in {"open", "closed"} :
             /\ state = "closed" => service.nc = "closed"
             /\ service' = [service EXCEPT !.pc = "syncing", !.nc = state]
    /\ UNCHANGED <<auto, restVars>>

\* sync_once: the call of sync_to_provider ends, the line is logged, and
\* run() reaches its next await: the sleep of the loop while self.running,
\* the end of run() otherwise
sync_once ==
    /\ service.pc = "syncing"
    /\ \E outcome \in Outcomes :
          /\ service.nc = "closed" => outcome \notin {"synced", "timeout"}
          /\ service' =
                IF ~ExceptException(outcome)
                THEN [service EXCEPT !.pc = "raised", !.last = outcome,
                                     !.result = Result(outcome)]
                ELSE [service EXCEPT
                        !.pc = IF service.running THEN "sleeping" ELSE "returned",
                        !.last = outcome,
                        !.result = Result(outcome),
                        !.log = SyncOnceLog(outcome)]
    /\ UNCHANGED <<auto, restVars>>

\* The loop of run(): the sleep is over; if not self.running: break;
\* otherwise the scheduled sync_once begins
run_loop ==
    /\ service.pc = "sleeping"
    /\ service' = [service EXCEPT
                     !.pc = IF service.running THEN "syncing" ELSE "returned"]
    /\ UNCHANGED <<auto, restVars>>

\* stop(), run as a task by the signal handler of main at an await of run():
\* self.running = False, and the connection of the client is closed
stop ==
    /\ service.pc \in {"connecting", "syncing", "sleeping"}
    /\ ~service.stopped
    /\ service' = [service EXCEPT
                     !.running = FALSE,
                     !.stopped = TRUE,
                     !.nc = IF service.client /\ service.nc # "none"
                            THEN "closed" ELSE @]
    /\ UNCHANGED <<auto, restVars>>

\* StorageReplicationClient.auto_sync_loop is started
auto_sync_loop ==
    /\ auto.pc = "idle"
    /\ auto' = [auto EXCEPT !.pc = "sleeping"]
    /\ UNCHANGED <<service, restVars>>

\* auto_sync_loop: the sleep is over and sync_to_provider is called
auto_sync_call ==
    /\ auto.pc = "sleeping"
    /\ auto' = [auto EXCEPT !.pc = "syncing"]
    /\ UNCHANGED <<service, restVars>>

\* auto_sync_loop: the call ends, an exception is logged, and the loop sleeps
auto_sync_return ==
    /\ auto.pc = "syncing"
    /\ \E outcome \in LoopOutcomes :
          auto' = [pc |-> IF ExceptException(outcome) THEN "sleeping" ELSE "raised",
                   last |-> outcome]
    /\ UNCHANGED <<service, restVars>>

ServiceNext ==
    \/ load_config
    \/ service_run
    \/ setup_client
    \/ sync_once
    \/ run_loop
    \/ stop
    \/ auto_sync_loop
    \/ auto_sync_call
    \/ auto_sync_return

ServiceSpec == Init /\ [][ServiceNext]_vars

\* asyncio.sleep returns after the interval, a connect returns or raises, and
\* every wait inside sync_to_provider is bounded: a step of run() or of
\* auto_sync_loop that can be taken is taken
ServiceLiveSpec ==
    /\ ServiceSpec
    /\ WF_vars(setup_client)
    /\ WF_vars(sync_once)
    /\ WF_vars(run_loop)
    /\ WF_vars(auto_sync_call)
    /\ WF_vars(auto_sync_return)

\* ------------------------------------------------------ auto-sync service claims
Required == {"database_path", "device_id", "provider_device_id", "encryption_password"}
\* run() left its first stretch; a call of sync_to_provider began; one ended
RunStep == service.pc = "created" /\ service'.pc # "created"
SyncStarted == service.pc # "syncing" /\ service'.pc = "syncing"
SyncReturned == service.pc = "syncing" /\ service'.pc # "syncing"
LoopSyncReturned == auto.pc = "syncing" /\ auto'.pc # "syncing"

\* C27: run() with enabled not true returns without creating a client or
\* connecting; with enabled true and one of database_path, device_id,
\* provider_device_id, encryption_password absent or empty it reports the
\* validation failure and returns with no client, no connection and no sync.
C27_DisabledOrInvalidReturns ==
    [][ RunStep =>
          /\ service.config.enabled # "true" =>
                /\ service'.pc = "returned"
                /\ service'.report = "disabled"
                /\ ~service'.client
                /\ service'.nc = "none"
                /\ service'.last = "none"
          /\ (service.config.enabled = "true"
                 /\ \E field \in Required : service.config[field] \in {"absent", ""}) =>
                /\ service'.pc = "returned"
                /\ service'.report = "invalid"
                /\ ~service'.client
                /\ service'.nc = "none"
                /\ service'.last = "none" ]_vars

\* an enabled service without a device_id has returned
C27_Witness ==
    /\ service.pc = "returned"
    /\ service.report = "invalid"
    /\ service.config.enabled = "true"
    /\ service.config.device_id = "absent"
    /\ service.config.db_exists

\* the outcomes of a cycle that did not succeed
Failures == {"timeout", "error", "raised"}

\* C28: in run() while the service is running, and in auto_sync_loop, a cycle
\* whose sync fails, times out or raises leaves the loop at its sleep, and
\* after that sleep another call of sync_to_provider is made.
C28_FailedCycleContinues ==
    /\ [][ /\ (SyncReturned /\ service.running /\ service'.last \in Failures) =>
                 service'.pc = "sleeping"
           /\ (LoopSyncReturned /\ auto'.last \in Failures) =>
                 auto'.pc = "sleeping" ]_vars
    /\ (service.pc = "sleeping" /\ service.last \in Failures) ~>
          (service.pc = "syncing" \/ ~service.running)
    /\ (auto.pc = "sleeping" /\ auto.last \in Failures) ~> (auto.pc = "syncing")

\* the running service is in a call that follows a cycle that raised, and
\* the loop of the client in one that follows a timeout
C28_Witness ==
    /\ service.pc = "syncing"
    /\ service.running
    /\ service.last = "raised"
    /\ service.log = "failed"
    /\ auto.pc = "syncing"
    /\ auto.last = "timeout"

\* C29: once stop() has been called no call of sync_to_provider is started,
\* the connection of the client is closed, and run() eventually returns.
C29_StopEndsService ==
    /\ [][ service.stopped => ~SyncStarted ]_vars
    /\ [](service.stopped => service.nc = "closed")
    /\ service.stopped ~> (service.pc \in {"returned", "raised"})

\* success, timeout (outcome unknown) or failure
Class(outcome) ==
    IF outcome \in {"synced", "no_change"} THEN "success"
    ELSE IF outcome = "timeout" THEN "timeout" ELSE "failure"

\* C30: what sync_to_provider hands to its caller tells success, timeout and
\* failure apart (two calls that ended differently gave different results),
\* a failure or timeout inside the call is not raised to the caller, and
\* sync_once logs a cycle as completed only when the sync succeeded.
C30_ExplicitResult ==
    [][ SyncReturned =>
          /\ (service.last # "none" /\ Class(service.last) # Class(service'.last)) =>
                service'.result # service.result
          /\ service'.last \in {"timeout", "error"} => service'.result # "exception"
          /\ service'.log = "completed" => Class(service'.last) = "success" ]_vars

\* ------------------------------------------------------ replication claims, continued
\* the call of task t makes its no-op test in this step
NoOpTest(t) == pc[t] = "get_checksum" /\ pc'[t] # "get_checksum"

\* C31: a call whose computed version equals the last-synced version recorded
\* in data_replication_state, the first call of a newly constructed client
\* included, short-circuits at the no-op test: it does not go on to export
\* and publish.
C31_NoOpFromPersistedState ==
    [][ \A t \in Tasks :
          (NoOpTest(t) /\ repl_state # NoRecord
                 /\ loc[t].version = repl_state.version) =>
              pc'[t] = "idle" ]_vars

\* C32: every sync envelope the client publishes carries the hash and the
\* length of exactly the plaintext that was encrypted into its data field,
\* whatever another process writes to the store during the call.
C32_EnvelopeDescribesPlaintext ==
    \A m \in syncNet :
        (m.type = "STORAGE_SYNC" /\ m.from = ClientId) =>
            /\ m.checksum = sha256(m.sent.plain)
            /\ m.size = FileSize(m.sent.plain)

\* ------------------------------------------------------ chunked transfer claims, continued
\* C33: when a completion has handed the reassembled file to the import step
\* the receiver holds no chunks and no transfer metadata any more.
C33_DoneDiscardsTransfer ==
    [][ (CompleteStep /\ rx_last'.outcome = "imported") =>
            /\ rx_chunks' = NoChunks
            /\ rx_keys' = <<>>
            /\ rx_metadata' = None ]_vars

\* ------------------------------------------------------ provider claims, continued
\* C34: an acknowledgment is published only in the step that handled a sync
\* request to the end, after the ciphertext was written to the sender's
\* replica file and the sender's index entry was set; it goes to the ack
\* subject of the envelope's sender, carries success, the envelope's version
\* and the hash of the ciphertext received, and it is the only
\* acknowledgment ever published for that request.
C34_AckAfterStore ==
    [][ \A a \in ackNet' \ ackNet :
          /\ Cardinality(ackNet' \ ackNet) = 1
          /\ \A b \in ackNet : b.req # a.req
          /\ \E m \in syncNet \ syncNet' :
                /\ a.req = m.req
                /\ a.to = m.from
                /\ a.success
                /\ a.version = m.version
                /\ a.checksum = sha256(b64decode(m.data))
                /\ files'[m.from] = b64decode(m.data)
                /\ replicas'[m.from] = ReplicaRecord(m, b64decode(m.data)) ]_vars

\* two requests of one source were each acknowledged, the second after its
\* ciphertext replaced the first in the file and in the index
C34_Witness ==
    \E a, b \in ackNet :
        /\ a.req # b.req
        /\ a.to = PeerId /\ b.to = PeerId
        /\ a.version # b.version
        /\ replicas[PeerId] # NoRecord
        /\ replicas[PeerId].req = b.req
        /\ files[PeerId] # TruncatedFile
        /\ b.checksum = sha256(files[PeerId])

\* ------------------------------------------------------ client claims, continued
\* C35: a call that sets last_sync_version to v does so when the provider has
\* stored an envelope with version v from this client, and the
\* acknowledgment that confirmed the call is one for version v, not the
\* acknowledgment of an earlier request with another version.
C35_CommittedVersionStored ==
    [][ \A t \in Tasks :
          (pc[t] = "commit" /\ pc'[t] # "commit" /\ Confirmed(t)) =>
              /\ last_sync_version' = loc[t].version
              /\ <<ClientId, last_sync_version'>> \in stored
              /\ loc[t].acked = loc[t].version ]_vars

CallReturns(t) == pc[t] \in InFlight /\ pc'[t] \notin InFlight

\* C36: the step in which a call that set is_syncing returns, by whichever
\* exit (acknowledged, timed out, nothing to sync, an exception in any
\* statement), clears the flag; the flag is never set while no call is in
\* flight; and a call in flight returns, so the flag that refuses later
\* calls is always cleared again.
C36_FlagClearedOnEveryExit ==
    /\ [][ \A t \in Tasks : CallReturns(t) => ~is_syncing' ]_vars
    /\ [](is_syncing => InFlightTasks # {})
    /\ [](is_syncing => <>(~is_syncing))
    /\ [](refused => <>(~refused))

\* a call that raised has returned, a later call was refused while the next
\* one was in flight, and that one returned too: both exits cleared the flag
C36_Witness ==
    /\ calls = 2
    /\ last_call.req = 2
    /\ last_call.outcome \in {"raised", "timeout", "no_change"}
    /\ ~is_syncing
    /\ InFlightTasks = {}

\* ------------------------------------------------------ receiver claims, continued
\* handle_complete handed the reassembled file to import_data in this step
ImportStep == CompleteStep /\ rx_last'.outcome = "imported"

\* C37: a transfer is handed to the import step at most once: a completion
\* that arrives after the transfer was imported successfully does not
\* reassemble and import it again, and a completion that arrives while no
\* sync request was received imports nothing.
C37_ImportOnce ==
    [][ /\ ImportStep => rx_last.imports = 0
        /\ (CompleteStep /\ rx_metadata = None) =>
              /\ ~ImportStep
              /\ rx_imported' = rx_imported
              /\ last_status' = last_status ]_vars

\* C38: IMPORT_COMPLETE with status success is published only if the import
\* script ended with exit code 0.
C38_SuccessOnlyOnExitZero ==
    [][ (ImportStep /\ last_status' = ImportComplete) =>
            rx_last'.returncode = 0 ]_vars

\* C39: with two senders on the shared subjects, a sender takes a ready or
\* an import-complete status as its own only if the receiver published it
\* while handling that sender's request or that sender's transfer, and the
\* file the receiver imports under a sender's metadata is the file that
\* sender declared.
C39_StatusesAndImportsPerSender ==
    [][ /\ (tx'.ack_received /\ ~tx.ack_received) =>
              rx_metadata'.sender_node_id = LocalNode
        /\ (peer'.ack_received /\ ~peer.ack_received) =>
              rx_metadata'.sender_node_id = PeerNode
        /\ (tx'.import_complete /\ ~tx.import_complete) =>
              rx_metadata.sender_node_id = LocalNode
        /\ (peer'.import_complete /\ ~peer.import_complete) =>
              rx_metadata.sender_node_id = PeerNode
        /\ ImportStep =>
              /\ sha256(rx_imported') = rx_metadata.checksum
              /\ rx_metadata.sender_node_id = PeerNode => rx_imported' = PeerFile
              /\ rx_metadata.sender_node_id = LocalNode => rx_imported' = src_file ]_vars

\* ------------------------------------------------------ registry claims, continued
\* the time a row was last heard of: its last heartbeat, or its registration
\* by register_device when it never sent one
LastHeard(row) ==
    IF row.last_heartbeat # NULL
    THEN ParseIso(row.last_heartbeat)
    ELSE ParseIso(row.last_seen)

\* the online rows that have sent no heartbeat for longer than the timeout of
\* the sweep in progress
Silent ==
    {id \in Ids :
        /\ registry[id] # NoRow
        /\ registry[id].is_online
        /\ registry[id].last_heartbeat # NULL \/ registry[id].last_seen # NULL
        /\ LastHeard(registry[id]) < sweep.at - 2 * sweep.timeout_minutes}

\* C40: a pass of check_stale_devices marks offline every online device that
\* has sent no heartbeat for longer than the timeout, a device that was
\* registered and never sent a heartbeat among them.
C40_SilentDevicesSwept ==
    [][ SweepStep => \A id \in Silent : ~registry'[id].is_online ]_vars

====
